---- MODULE Spec2Model ----
(***************************************************************************)
(* The mkfst HTTP/1.1 request pipeline: one connection of one worker, the  *)
(* request state machine of MercurySyncHTTPConnection._execute, the        *)
(* middleware wrappers and the circuit breaker.                            *)
(*                                                                         *)
(* Scheduling follows asyncio: one task runs at a time and keeps running   *)
(* until it awaits something that is not ready (the rate limiter, the      *)
(* route handler).  Event-loop callbacks (data_received, the peer closing  *)
(* the socket, the clock) run only while no task is running.  The awaits   *)
(* on the logger are taken not to suspend.                                 *)
(*                                                                         *)
(* The specifications share the actions:                                   *)
(*   Spec         any request, unidirectional middleware, with or without  *)
(*                rate limiting;                                           *)
(*   BreakerSpec  the CircuitBreaker as only middleware, requests in       *)
(*                flight together, a clock;                                *)
(*   LimitedSpec  the CircuitBreaker behind the rate limiter, one request  *)
(*                at a time, a peer that may close the socket;             *)
(*   BackoffSpec  the error replies at a finer grain: the log write inside *)
(*                the backoff semaphore suspends the task;                 *)
(*   LimiterSpec  the Limiter alone: limit keys and limiter instances;     *)
(*   CachedSpec   request caching enabled, a client that repeats itself;   *)
(*   ServiceSpec  Service.run, start_tasks, abort and close, for a single  *)
(*                process, a pool worker and the pool parent;              *)
(*   ServiceLiveSpec  ServiceSpec with the steps of run() weakly fair;     *)
(*   ReceiveSpec  two client connections, their receive buffers and the    *)
(*                body reads of _parse, segment by segment;                *)
(*   WrapSpec     one Middleware instance that wraps several routes;       *)
(*   LiveSpec     Spec with at most one middleware and the steps of each   *)
(*                pass weakly fair.                                        *)
(***************************************************************************)
EXTENDS Integers, Sequences, FiniteSets, TLC

VARIABLES
    rate_limiting_enabled, \* MercurySyncHTTPConnection._rate_limiting_enabled
    chain,                 \* Service.middleware: kinds of the wrappers, innermost first
    closing,               \* transport.is_closing()
    wire,                  \* the responses written to the transport, in order: [req, code]
    received,              \* number of read() calls (request passes started)
    request,               \* per pass: the request that was received
    status,                \* per pass: the RequestState of _execute (or a suspension)
    args,                  \* per pass: the tuple handed to the next stage
    ctx,                   \* per pass: the ResponseContext of _run_middleware
    obs,                   \* per pass: what has been observed of the pass (history)
    breaker,               \* the CircuitBreaker instance
    now,                   \* loop.time()
    next_data,             \* MercurySyncTCPServerProtocol._next_data, a future
    backoff_sem,           \* MercurySyncHTTPConnection._backoff_sem: the free slots
    rate_limit_strategy,   \* Limiter._rate_limit_strategy
    rate_limiters,         \* Limiter._rate_limiters: pairs [key, id] of key and instance
    charged,               \* the limiter calls so far: [call, instance]
    request_caching_enabled, \* MercurySyncHTTPConnection._request_caching_enabled
    cache,                 \* MercurySyncHTTPConnection._cache
    service,               \* the Service: its run() and what run() started
    waiting_for_data,      \* MercurySyncHTTPConnection.waiting_for_data, an Event
    proto,                 \* per client connection: its MercurySyncTCPServerProtocol
    frame,                 \* per pass: the locals of _parse while it reads a body
    response_headers,      \* _response_headers["GET_/a"]["x-mercury-sync-overload"]
    middleware             \* a Middleware instance and the wrappers made from it

limiter_vars == <<rate_limit_strategy, rate_limiters, charged>>
service_vars == <<request_caching_enabled, cache, service>>
worker_vars == <<waiting_for_data, proto, frame, response_headers, middleware>>

vars == <<rate_limiting_enabled, chain, closing, wire, received, request, status,
          args, ctx, obs, breaker, now, next_data, backoff_sem, limiter_vars,
          service_vars, worker_vars>>

---------------------------------------------------------------------------
\* Bounds of the model.

MaxReq == 2          \* request passes per connection
MaxTime == 5         \* the clock stops here
MaxServed == 7       \* requests received while the circuit breaker is studied
FailureWindow == 2   \* CircuitBreaker.failure_window, in clock ticks
HandlerTimeout == 1  \* CircuitBreaker.handler_timeout, in clock ticks
BackoffRate == 1     \* MERCURY_SYNC_HTTP_RATE_LIMIT_BACKOFF_RATE
MaxCalls == 3        \* calls of Limiter.limit while the limit keys are studied

\* Program constants: the number of positional parameters of each stage
\* method after self (and transport), and the length of the tuples built.
RouteArity == 7
RateLimitArity == 13
MiddlewareArity == 13
HandleArity == 8
ErrorArity == 8
CompleteArity == 8
AbortArity == 5
NextStateLen == 13
AbortedLen == 6
ThresholdDen == 5    \* failure_threshold = 0.2 = 1 / ThresholdDen

Reqs == 1..MaxReq

None == "None"
NoStatus == 0        \* a status of None

Max(a, b) == IF a >= b THEN a ELSE b

---------------------------------------------------------------------------
\* Requests and routes.

Methods == {"GET", "POST"}

\* Request targets, as sequences of path segments.
Targets == {<<"a">>, <<"u", "7">>, <<"zz">>, <<"d">>}

\* The endpoints of the service: path template -> registered methods.
\* "/a" returns a plain string (no response parser); "/u/:id" returns a model;
\* the handler of "/d" takes a required Query model, the others take nothing.
Templates == {<<"a">>, <<"u", ":id">>, <<"d">>}
RouteMethods(t) == {"GET"}
HasParser(t) == t = <<"u", ":id">>

\* Service._gather_hooks: the inputs the handler's signature declares, from
\* which the route's Fabricator is built.
InputKinds == {"headers", "body", "cookies", "parameters", "query"}
Declared(t) == IF t = <<"d">> THEN "query" ELSE "none"

NoRoute == <<>>
NoKey == <<None, NoRoute>>

\* Service._gather_hooks: events and fabricators get the same "{method}_{path}" keys.
EventKeys == {<<m, t>> : m \in {"GET"}, t \in Templates}
FabricatorKeys == EventKeys

\* The requests a client may send.  wellformed: the request line and the
\* header lines match their patterns; has_length: a Content-Length or
\* Transfer-Encoding header is present; valid: the declared inputs validate;
\* expect: an "Expect: 100-continue" header is present; host: the name under
\* which the Host header was sent, if it was.
HostNames == {"Host", "host", "none"}

Requests ==
    {rq \in [method : Methods, target : Targets, wellformed : BOOLEAN,
             has_length : BOOLEAN, valid : BOOLEAN, expect : BOOLEAN,
             host : HostNames] :
        /\ (~rq.wellformed => rq.method = "GET" /\ rq.target = <<"a">> /\ rq.valid)
        /\ (rq.method = "GET" => ~rq.has_length)
        /\ (~rq.valid => rq.target = <<"d">>)
        /\ (rq.target = <<"d">> => rq.method = "GET" /\ rq.wellformed
                                    /\ rq.host = "Host")
        /\ (rq.method = "POST" /\ ~rq.has_length => rq.target = <<"a">> /\ rq.valid)
        /\ (rq.expect => rq.method = "POST" /\ rq.target = <<"a">> /\ rq.wellformed
                          /\ rq.host = "Host")
        /\ (rq.host # "Host" => rq.method = "GET" /\ rq.target = <<"a">>
                                 /\ rq.wellformed /\ rq.valid)}

NoRequest == [method |-> None, target |-> NoRoute, wellformed |-> FALSE,
              has_length |-> FALSE, valid |-> FALSE, expect |-> FALSE,
              host |-> "none"]

IsParam(seg) == seg \in {":id"}

\* A template matches a path segment by segment; a parameter matches any one segment.
Matches(t, p) ==
    /\ Len(t) = Len(p)
    /\ \A i \in 1..Len(t) : IsParam(t[i]) \/ t[i] = p[i]

\* Router.match: literal segments win over parameterized ones.
TrieMatch(p) ==
    IF p \in Templates THEN p
    ELSE IF \E t \in Templates : Matches(t, p)
         THEN CHOOSE t \in Templates : Matches(t, p)
         ELSE NoRoute

---------------------------------------------------------------------------
\* The tuples passed from stage to stage.  n is the length of the tuple.

Tuple(n, path, version, method, headers, errors, code, key, data) ==
    [n |-> n, path |-> path, version |-> version, method |-> method,
     headers |-> headers, errors |-> errors, code |-> code, key |-> key,
     data |-> data]

NoArgs == Tuple(0, NoRoute, None, None, None, <<>>, NoStatus, NoKey, None)

Result(st, a) == [st |-> st, args |-> a]

ErrorResult(path, version, method, headers, errors, code) ==
    Result("ERROR", Tuple(ErrorArity, path, version, method, headers, errors, code, NoKey, None))

---------------------------------------------------------------------------
\* request_headers.get(name, default)
HeaderGet(rq, name, default) == IF rq.host = name THEN "value" ELSE default

\* _parse: the condition under which "Missing Host header" is raised.
MissingHost(rq) ==
    HeaderGet(rq, "Host", "") = None /\ HeaderGet(rq, "host", None) = None

\* _parse: the 100 Continue is written and the pass waits for more data.
ExpectsContinue(rq, is_closing) == rq.wellformed /\ rq.expect /\ ~is_closing

\* _parse: wait_for(data_ready, timeout=request_timeout) timed out.
TimeoutResult(rq) ==
    ErrorResult(rq.target, "HTTP/1.1", rq.method, "request",
                <<"Request exceeded timeout">>, 408)

\* _parse: the stage result for a received request, once its data is there.
ParseResult(rq) ==
    IF ~rq.wellformed
    THEN \* validate() raised before the request line was decoded
         ErrorResult(NoRoute, None, None, "request", <<"Bad Request">>, 400)
    ELSE IF MissingHost(rq)
    THEN ErrorResult(NoRoute, None, None, "request", <<"Missing Host header">>, 400)
    ELSE IF rq.method \in {"POST", "PUT", "PATCH"} /\ ~rq.has_length
    THEN ErrorResult(rq.target, "HTTP/1.1", rq.method, "request",
                     <<"No Content-Length or Transfer-Encoding header supplied">>, 400)
    ELSE Result("ROUTE", Tuple(RouteArity, rq.target, "HTTP/1.1", rq.method,
                               "request", <<>>, NoStatus, NoKey, None))

\* Fabricator.parse for a GET request (request_data None), once the call has
\* bound its arguments: with no declared input it returns at once.  Otherwise
\* _get_annotation hands back the (param_type, annotation) tuple, or indexes
\* the list of keyword parameters by name, so that building the declared
\* model raises TypeError before any model validates the input: Headers.make
\* and Query.make call the tuple, _parse_params calls it, _parse_cookies is
\* called with three arguments too many, and _parse_body slices a data of
\* None.  No branch is left that returns a validation error, whether the
\* input is valid or not and whether the route is wrapped or not.
FabricatorParse(declared, valid, has_middleware) ==
    IF declared = "none" THEN "ok"
    ELSE IF declared \in InputKinds THEN "raise"
    ELSE "validation_error"

\* Service._setup: every endpoint is wrapped when the service has middleware.
MiddlewareEnabled(key) == chain # <<>> /\ key \in EventKeys

\* _route: exact lookup, then the trie; 404 / 405 / 422 or the next stage.
\* A _route that asks for the middleware before the rate limiting.
RouteResultMiddlewareFirst(a, valid) ==
    LET key0 == <<a.method, a.path>>
        exact == key0 \in EventKeys /\ key0 \in FabricatorKeys
        match == IF exact THEN NoRoute ELSE TrieMatch(a.path)
        path == IF match # NoRoute THEN match ELSE a.path
        handler == IF exact THEN key0
                   ELSE IF match # NoRoute
                        THEN (IF a.method \in RouteMethods(match)
                              THEN <<a.method, match>> ELSE NoKey)
                        ELSE (IF key0 \in EventKeys THEN key0 ELSE NoKey)
        key == IF match # NoRoute THEN <<a.method, match>> ELSE key0
        fabricator == IF exact THEN TRUE
                      ELSE match # NoRoute /\ key \in FabricatorKeys
    IN  IF handler = NoKey
        THEN ErrorResult(path, a.version, a.method, "request",
                         <<"No route matching">>, 404)
        ELSE IF ~fabricator
        THEN ErrorResult(path, a.version, a.method, "request",
                         <<"No route matching for method">>, 405)
        ELSE IF FabricatorParse(Declared(key[2]), valid, MiddlewareEnabled(key)) = "raise"
        THEN Result("RAISED", a)
        ELSE IF FabricatorParse(Declared(key[2]), valid, MiddlewareEnabled(key))
                    = "validation_error"
        THEN ErrorResult(path, a.version, a.method, "request",
                         <<"Unprocessable Content">>, 422)
        ELSE IF MiddlewareEnabled(key)
        THEN Result("MIDDLEWARE", Tuple(NextStateLen, path, a.version, a.method,
                                        "request", <<>>, NoStatus, key, None))
        ELSE IF rate_limiting_enabled
        THEN Result("RATE_LIMIT", Tuple(NextStateLen, path, a.version, a.method,
                                        "request", <<>>, NoStatus, key, None))
        ELSE Result("HANDLE", Tuple(HandleArity, path, a.version, a.method,
                                    "route", <<>>, NoStatus, key, None))

RouteResult(a, valid) ==
    LET key0 == <<a.method, a.path>>
        exact == key0 \in EventKeys /\ key0 \in FabricatorKeys
        match == IF exact THEN NoRoute ELSE TrieMatch(a.path)
        path == IF match # NoRoute THEN match ELSE a.path
        handler == IF exact THEN key0
                   ELSE IF match # NoRoute
                        THEN (IF a.method \in RouteMethods(match)
                              THEN <<a.method, match>> ELSE NoKey)
                        ELSE (IF key0 \in EventKeys THEN key0 ELSE NoKey)
        key == IF match # NoRoute THEN <<a.method, match>> ELSE key0
        fabricator == IF exact THEN TRUE
                      ELSE match # NoRoute /\ key \in FabricatorKeys
    IN  IF handler = NoKey
        THEN ErrorResult(path, a.version, a.method, "request",
                         <<"No route matching">>, 404)
        ELSE IF ~fabricator
        THEN ErrorResult(path, a.version, a.method, "request",
                         <<"No route matching for method">>, 405)
        ELSE IF FabricatorParse(Declared(key[2]), valid, MiddlewareEnabled(key)) = "raise"
        THEN Result("RAISED", a)
        ELSE IF FabricatorParse(Declared(key[2]), valid, MiddlewareEnabled(key))
                    = "validation_error"
        THEN ErrorResult(path, a.version, a.method, "request",
                         <<"Unprocessable Content">>, 422)
        ELSE IF rate_limiting_enabled
        THEN Result("RATE_LIMIT", Tuple(NextStateLen, path, a.version, a.method,
                                        "request", <<>>, NoStatus, key, None))
        ELSE IF MiddlewareEnabled(key)
        THEN Result("MIDDLEWARE", Tuple(NextStateLen, path, a.version, a.method,
                                        "request", <<>>, NoStatus, key, None))
        ELSE Result("HANDLE", Tuple(HandleArity, path, a.version, a.method,
                                    "route", <<>>, NoStatus, key, None))

LimiterOutcomes == {"accept", "reject", "raise"}

\* A _rate_limit that lets a rejected request through.
RateLimitResultAdmitsRejected(a, outcome, is_closing) ==
    IF outcome = "raise"
    THEN ErrorResult(a.path, a.version, a.method, "request", <<"exception">>, 500)
    ELSE IF MiddlewareEnabled(a.key)
    THEN Result("MIDDLEWARE", a)
    ELSE Result("HANDLE", a)

\* _rate_limit, after self._limiter.limit(...) answered.
RateLimitResult(a, outcome, is_closing) ==
    IF outcome = "raise"
    THEN ErrorResult(a.path, a.version, a.method, "request", <<"exception">>, 500)
    ELSE IF outcome = "reject" /\ ~is_closing
    THEN Result("ABORTED", Tuple(AbortedLen, a.path, None, a.method, None,
              <<"Rejected by rate limiting and transport closed - aborting request">>,
              429, NoKey, None))
    ELSE IF outcome = "reject"
    THEN Result("ABORTED", Tuple(AbortedLen, a.path, None, a.method, None,
              <<"Rejected by rate limiting">>, 429, NoKey, None))
    ELSE IF MiddlewareEnabled(a.key)
    THEN Result("MIDDLEWARE", a)
    ELSE Result("HANDLE", a)

HandlerOutcomes == {"ok", "bad", "raise"}

\* _handle, after the handler answered.  "bad": the handler returned a value
\* that _complete_request cannot serialize.
HandleResult(a, outcome) ==
    IF outcome = "raise"
    THEN ErrorResult(a.path, a.version, a.method, "route", <<"exception">>, 500)
    ELSE Result("COMPLETE",
                Tuple(CompleteArity, a.path, a.version, a.method, "route", <<>>,
                      IF HasParser(a.key[2]) THEN 200 ELSE NoStatus,
                      a.key, IF outcome = "ok" THEN "str" ELSE "bad"))

\* _complete_request raises when the response data cannot be serialized.
CompleteFails(a) ==
    \/ a.data = "bad"
    \/ a.data = None /\ HasParser(a.key[2])

\* get_content_type(return_type): the content-type endpoint() puts into the
\* response headers of a route; a route with a response model returns a
\* BaseModel, the others return str.
GetContentType(t) == IF HasParser(t) THEN "application/json" ELSE "text/plain"

\* The content-type line prepare_response and _complete_request write for
\* the headers of a stage tuple: the literal {"content-type":
\* "application/json"}, the route's response headers, or the headers of the
\* request, which carry no content-type here.
ContentType(a) ==
    IF a.headers = "json" THEN "application/json"
    ELSE IF a.headers = "route" THEN GetContentType(a.path)
    ELSE "none"

\* HTTPResponse(...): pydantic validation of the fields _handle_error passes.
HTTPResponseMethods == {"GET", "POST", "HEAD", "OPTIONS", "PUT", "PATCH", "DELETE"}
ValidHTTPResponse(a) ==
    /\ a.version # None
    /\ a.headers # None
    /\ a.method \in HTTPResponseMethods \cup {None}

\* _handle_error: "written", "suppressed" (transport closing) or "raised".
HandleErrorOutcome(a, is_closing) ==
    IF is_closing THEN "suppressed"
    ELSE IF ValidHTTPResponse(a) THEN "written"
    ELSE "raised"

---------------------------------------------------------------------------
\* The circuit breaker.  Rates are kept multiplied by FailureWindow, so that
\*   rate = previous * (W - elapsed) / W + current
\* stays an integer; int(rate) is rate \div FailureWindow.

NoTime == -1

BreakerInit ==
    [state |-> "CLOSED",
     failed |-> 0, succeeded |-> 0, total_completed |-> 0,
     previous_count |-> 0, previous_count_succeeded |-> 0, previous_count_failed |-> 0,
     rate |-> 0, rate_succeeded |-> 0, rate_failed |-> 0,
     current_time |-> 0,
     closed_window_start |-> NoTime, closed_elapsed |-> 0,
     half_open_window_start |-> NoTime, half_open_elapsed |-> 0,
     steps |-> <<>>]

\* steps: the state transitions made by the latest run of __run__ code, each
\* with the time since the state left was entered (history, not program state).
Step(b, to, since) ==
    Append(b.steps, [from |-> b.state, to |-> to, since |-> since])

\* A window roll that forgets to reset the failed count.
RollWindowKeepsFailed(b, t) ==
    IF t - b.current_time > FailureWindow
    THEN [b EXCEPT !.current_time = (t \div FailureWindow) * FailureWindow,
                   !.previous_count = b.total_completed,
                   !.previous_count_succeeded = b.succeeded,
                   !.previous_count_failed = b.failed,
                   !.succeeded = 0, !.total_completed = 0]
    ELSE b

\* reject_request, up to the random draw: the window roll and the three rates.
RollWindow(b, t) ==
    IF t - b.current_time > FailureWindow
    THEN [b EXCEPT !.current_time = (t \div FailureWindow) * FailureWindow,
                   !.previous_count = b.total_completed,
                   !.previous_count_succeeded = b.succeeded,
                   !.previous_count_failed = b.failed,
                   !.failed = 0, !.succeeded = 0, !.total_completed = 0]
    ELSE b

UpdateRates(b, t) ==
    LET left == FailureWindow - (t - b.current_time)
    IN  [b EXCEPT !.rate = b.previous_count * left + b.total_completed * FailureWindow,
                  !.rate_succeeded = b.previous_count_succeeded * left
                                     + b.succeeded * FailureWindow,
                  !.rate_failed = b.previous_count_failed * left
                                  + b.failed * FailureWindow]

\* The rejection probability is positive iff rate > rate_succeeded / (1 - threshold),
\* and it is always below 1.
MayRejectAtRandom(b) ==
    (ThresholdDen - 1) * b.rate > ThresholdDen * b.rate_succeeded

\* trip_breaker: int(rate_failed) > int(max(rate * failure_threshold, 1)).
TripBreaker(b) ==
    (b.rate_failed \div FailureWindow)
        > Max(b.rate \div (ThresholdDen * FailureWindow), 1)

\* __run__, lines 153-210: the rejection decision and the timed transitions.
\* draw: the random draw fell below the rejection probability.
\* Result: the breaker, whether the request is rejected, and whether it was
\* rejected for the breaker being OPEN.
\* An OpenStep that leaves OPEN without looking at the time elapsed.
OpenStepAtOnce(b, t) ==
    IF b.state = "OPEN"
    THEN [b |-> [b EXCEPT !.state = "HALF_OPEN", !.half_open_window_start = t,
                          !.closed_elapsed = 0,
                          !.steps = Step(b, "HALF_OPEN", t - b.closed_window_start)],
          open |-> FALSE]
    ELSE [b |-> b, open |-> FALSE]

OpenStep(b, t) ==
    IF b.state = "OPEN" /\ b.closed_elapsed < FailureWindow
    THEN [b |-> [b EXCEPT !.closed_elapsed = t - b.closed_window_start], open |-> TRUE]
    ELSE IF b.state = "OPEN"
    THEN [b |-> [b EXCEPT !.state = "HALF_OPEN", !.half_open_window_start = t,
                          !.closed_elapsed = 0,
                          !.steps = Step(b, "HALF_OPEN", t - b.closed_window_start)],
          open |-> FALSE]
    ELSE [b |-> b, open |-> FALSE]

HalfOpenStep(b, t) ==
    IF b.state = "HALF_OPEN" /\ b.half_open_elapsed < FailureWindow
    THEN [b EXCEPT !.half_open_elapsed = t - b.half_open_window_start]
    ELSE IF b.state = "HALF_OPEN"
    THEN [b EXCEPT !.state = "CLOSED", !.half_open_elapsed = 0,
                   !.steps = Step(b, "CLOSED", t - b.half_open_window_start)]
    ELSE b

BreakerPre(b, t, draw) ==
    LET b1 == UpdateRates(RollWindow([b EXCEPT !.steps = <<>>], t), t)
        random == draw /\ MayRejectAtRandom(b1)
        o == OpenStep(b1, t)
    IN  [b |-> HalfOpenStep(o.b, t), reject |-> random \/ o.open, open |-> o.open]

\* __run__, lines 278-297: the counters after the wrapped call.
BreakerCount(b, st) ==
    LET b1 == IF st # NoStatus /\ st >= 400
              THEN [b EXCEPT !.failed = b.failed + 1]
              ELSE [b EXCEPT !.succeeded = b.succeeded + 1]
    IN  [b1 EXCEPT !.total_completed = b.total_completed + 1]

\* __run__, lines 304-337: the trip.  Result: the breaker and the reject flag.
BreakerPost(b, t, reject) ==
    IF TripBreaker(b) /\ b.state \in {"CLOSED", "HALF_OPEN"}
    THEN [b |-> [b EXCEPT !.state = "OPEN", !.closed_window_start = t,
                          !.half_open_elapsed = 0, !.steps = Step(b, "OPEN", 0)],
          reject |-> TRUE]
    ELSE [b |-> b, reject |-> reject]

\* What one pass through CircuitBreaker.__run__ added to the counters.
CountDelta(b0, b1) ==
    LET dt == b1.total_completed - b0.total_completed
        df == b1.failed - b0.failed
        ds == b1.succeeded - b0.succeeded
    IN  IF dt = 0 /\ df = 0 /\ ds = 0 THEN "none"
        ELSE IF dt = 1 /\ df = 1 /\ ds = 0 THEN "failed"
        ELSE IF dt = 1 /\ df = 0 /\ ds = 1 THEN "succeeded"
        ELSE "other"

RejectedError == "Err. - request temporarily rejected."

---------------------------------------------------------------------------
\* Middleware.  chain[1] wraps the raw route handler, chain[Len(chain)] is
\* the callable registered for the route (Service._gather_hooks).

\* What a unidirectional middleware's __run__ may do: let the request pass;
\* reject it with a status and an error (Cors, TrustedHost); reject it with
\* an error and no status (Cors); stop it with a status and no error (CRSF);
\* stop it with status 307 and a location header (HTTPSRedirect, for a
\* request over http or ws when an upgrade port is configured).
RunOutcomes == {"pass", "reject", "reject_nostatus", "halt", "redirect"}

Continue(o) == o = "pass"

ApplyRun(c, o) ==
    [status |-> IF o = "reject" THEN 401 ELSE IF o = "halt" THEN 403
                ELSE IF o = "redirect" THEN 307 ELSE c.status,
     errors |-> IF o \in {"reject", "reject_nostatus"}
                THEN Append(c.errors, "rejected by middleware") ELSE c.errors,
     overload |-> c.overload]

NewContext == [status |-> NoStatus, errors |-> <<>>, overload |-> "absent"]

\* UnidirectionalWrapper.__call__ (UNIDIRECTIONAL_BEFORE): whether the wrapped
\* callable is invoked after run(...) returned continue? = run_next.
BeforeCallsNext(wraps, run_next) ==
    IF wraps THEN run_next ELSE TRUE

\* The walk state: context, breaker, the number of run(...) calls made, the
\* level at which the chain stopped (0: the raw handler is reached), whether
\* some run(...) of a unidirectional wrapper returned continue? = false, and
\* whether the breaker was entered OPEN within failure_window of its trip.
Walk(c, b, runs, stop, halted, openEntry) ==
    [ctx |-> c, b |-> b, runs |-> runs, stop |-> stop,
     halted |-> halted, openEntry |-> openEntry]

\* The calls from the outermost wrapper inwards, until a wrapper does not
\* call its handler or the raw route handler is reached.
RECURSIVE PreWalk(_, _, _, _)
PreWalk(i, w, outs, draw) ==
    IF i = 0 THEN w
    ELSE IF chain[i] = "before"
    THEN LET c1 == ApplyRun(w.ctx, outs[i])
             w1 == [w EXCEPT !.ctx = c1, !.runs = w.runs + 1,
                             !.halted = w.halted \/ ~Continue(outs[i])]
         IN  IF BeforeCallsNext(i > 1, Continue(outs[i]))
             THEN PreWalk(i - 1, w1, outs, draw)
             ELSE [w1 EXCEPT !.stop = i]
    ELSE \* "breaker": CallWrapper.__call__ -> CircuitBreaker.__run__
         LET pre == BreakerPre(w.b, now, draw)
             w1 == [w EXCEPT !.b = pre.b, !.runs = w.runs + 1,
                             !.openEntry = (w.b.state = "OPEN" /\
                                   now - w.b.closed_window_start < FailureWindow)]
         IN  IF pre.reject
             THEN LET post == BreakerPost(pre.b, now, TRUE)
                  IN  [w1 EXCEPT !.b = post.b, !.stop = i,
                                 !.ctx = [status |-> 503,
                                          errors |-> Append(w.ctx.errors, RejectedError),
                                          overload |-> "True"]]
             ELSE PreWalk(i - 1, w1, outs, draw)

\* The returns from level i outwards.  outcome: how the call made by level i
\* ended ("ok", "raise", "timeout").
RECURSIVE PostWalk(_, _, _)
PostWalk(i, w, outcome) ==
    IF i > Len(chain) THEN [w |-> w, outcome |-> outcome]
    ELSE IF chain[i] = "before" \/ outcome = "raise"
    THEN PostWalk(i + 1, w, outcome)
    ELSE \* the breaker, after wait_for(handler(...)) returned or timed out
         LET st == IF outcome = "timeout" THEN 503 ELSE w.ctx.status
             counted == BreakerCount([w.b EXCEPT !.steps = <<>>], st)
             post == BreakerPost(counted, now, FALSE)
             errs == IF post.reject THEN Append(w.ctx.errors, RejectedError)
                     ELSE w.ctx.errors
         IN  PostWalk(i + 1,
                      [w EXCEPT !.b = post.b,
                                !.ctx = [status |-> st, errors |-> errs,
                                         overload |-> IF outcome = "timeout"
                                                      THEN "True" ELSE "False"]],
                      "ok")

HasBreaker == \E i \in 1..Len(chain) : chain[i] = "breaker"

\* A _run_middleware that hands the request on to HANDLE after the registered
\* callable returned, so that the raw route handler is awaited a second time.
MiddlewareResultHandlesAgain(a, c, data, raised, is_closing) ==
    IF raised
    THEN ErrorResult(a.path, a.version, a.method, "request", <<"exception">>, 500)
    ELSE IF Len(c.errors) > 0 /\ ~is_closing
    THEN ErrorResult(a.path, a.version, a.method, "json", c.errors,
                     IF c.status # NoStatus THEN c.status ELSE 500)
    ELSE Result("HANDLE",
                Tuple(HandleArity, a.path, a.version, a.method, "route", <<>>,
                      NoStatus, a.key, None))

\* The x-mercury-sync-overload entry of the response headers registered for
\* a route: CallWrapper.__init__ puts the CircuitBreaker's response headers
\* into the handler's, of which Service._gather_hooks registers a copy.
RegisteredHeaders == IF HasBreaker THEN "True" ELSE "absent"

\* _run_middleware: response_headers = self._response_headers.get(key, {});
\* response_headers.update(context.response_headers), on the registered
\* dict itself, unless the registered callable raised.
UpdatedHeaders(registered, c, raised) ==
    IF raised \/ c.overload = "absent" THEN registered ELSE c.overload

\* _run_middleware, after the registered callable returned or raised.
MiddlewareResult(a, c, data, raised, is_closing) ==
    IF raised
    THEN ErrorResult(a.path, a.version, a.method, "request", <<"exception">>, 500)
    ELSE IF Len(c.errors) > 0 /\ ~is_closing
    THEN ErrorResult(a.path, a.version, a.method, "json", c.errors,
                     IF c.status # NoStatus THEN c.status ELSE 500)
    ELSE Result("COMPLETE",
                Tuple(CompleteArity, a.path, a.version, a.method, "route", <<>>,
                      200, a.key, data))

---------------------------------------------------------------------------
\* The request passes.

Running == {"PARSE", "ROUTE", "RATE_LIMIT", "MIDDLEWARE", "HANDLE", "COMPLETE",
            "ERROR", "ABORTED", "RAISED"}
Suspended == {"IN_PARSE", "IN_LIMITER", "IN_MW_HANDLER", "IN_HANDLER",
              "WAIT_ERROR", "IN_ERROR", "WAIT_EXCEPT", "IN_EXCEPT"}
Terminal == {"DONE", "CRASHED"}

Ended(r) == status[r] \in Terminal

Last(h) == h[Len(h)]

\* No task is running: the event loop may run a callback or resume a task.
LoopIdle == \A r \in Reqs : status[r] \notin Running

NoObs ==
    [seq |-> 0, hist |-> <<>>, handler |-> 0, runs |-> 0, limited |-> "none",
     halted |-> FALSE, openEntry |-> FALSE, hout |-> "none",
     counted |-> "none", writes |-> 0, code |-> NoStatus, closes |-> 0,
     lost |-> FALSE, t0 |-> 0, interim |-> 0, rejectedOpen |-> FALSE,
     repeat |-> FALSE, ctype |-> "none"]

Chains == {<<>>, <<"before">>, <<"before", "before">>}

---------------------------------------------------------------------------
\* The receive path: client connections, their receive buffers and the
\* body reads of _parse.  The wire is counted in tokens [t, k, n]: the
\* request line with the first header lines of a request of kind k ("H1"),
\* the remaining header lines with the blank line ("H2"), a chunk-size line
\* "n CRLF" ("size"), one body byte k ("data"), a CRLF ("crlf"), the hex
\* digits n left of a stripped size line ("hex") and a run of n bytes cut
\* out of a token ("part").
\* The kinds of request a client sends, all GET /a with a Host header: "get"
\* without body headers, "len" with Content-Length: BodyLen, "chunked" with
\* Transfer-Encoding: chunked, "expect" with Expect: 100-continue and
\* Content-Length: BodyLen.

MaxConns == 2        \* client connections of the worker
BodyLen == 2         \* the Content-Length the client announces
MaxSegment == 10     \* tokens in one segment
MaxRoutes == 3       \* routes one Middleware instance wraps
MaxRuns == 2         \* runs of the instance's __run__ that are followed

Tok(t, k, n) == [t |-> t, k |-> k, n |-> n]

\* What a client sends on its connection: a bare GET; Content-Length with
\* its two bytes; one chunk; two chunks; the zero-size chunk alone; Expect
\* with the two bytes of the body.
Messages ==
    {<<Tok("H1", "get", 0), Tok("H2", "get", 0)>>,
     <<Tok("H1", "len", 0), Tok("H2", "len", 0),
       Tok("data", "a", 0), Tok("data", "b", 0)>>,
     <<Tok("H1", "chunked", 0), Tok("H2", "chunked", 0),
       Tok("size", "", 1), Tok("data", "a", 0), Tok("crlf", "", 0),
       Tok("size", "", 0), Tok("crlf", "", 0)>>,
     <<Tok("H1", "chunked", 0), Tok("H2", "chunked", 0),
       Tok("size", "", 1), Tok("data", "a", 0), Tok("crlf", "", 0),
       Tok("size", "", 1), Tok("data", "b", 0), Tok("crlf", "", 0),
       Tok("size", "", 0), Tok("crlf", "", 0)>>,
     <<Tok("H1", "chunked", 0), Tok("H2", "chunked", 0),
       Tok("size", "", 0), Tok("crlf", "", 0)>>,
     <<Tok("H1", "expect", 0), Tok("H2", "expect", 0),
       Tok("data", "a", 0), Tok("data", "b", 0)>>}

\* The request of a header block of kind k, as _parse decodes it.
RequestOf(k) ==
    [method |-> "GET", target |-> <<"a">>, wellformed |-> TRUE,
     has_length |-> k # "get", valid |-> TRUE, expect |-> k = "expect",
     host |-> "Host"]

\* ReceiveBuffer.maybe_extract_lines: the complete lines up to the blank
\* separator, or None ("none") with the buffer untouched when there is no
\* blank line yet; an immediate empty line is taken out and gives no lines.
\* lines: the kind of the header block when the lines are the request line
\* and header lines of a request, "empty" for no lines, "bad" otherwise.
MaybeExtractLines(buf) ==
    LET EndsLine(tok) == tok.t \in {"size", "crlf", "H2"}
        BlankAt(i) == \/ buf[i].t = "H2"
                      \/ buf[i].t = "crlf" /\ (i = 1 \/ EndsLine(buf[i - 1]))
    IN  IF \A i \in 1..Len(buf) : ~BlankAt(i)
        THEN [lines |-> "none", rest |-> buf]
        ELSE LET i == CHOOSE j \in 1..Len(buf) :
                         BlankAt(j) /\ \A h \in 1..(j - 1) : ~BlankAt(h)
                 out == SubSeq(buf, 1, i)
             IN  [lines |-> IF out = <<Tok("crlf", "", 0)>> THEN "empty"
                            ELSE IF i = 2 /\ out[1].t = "H1" /\ out[2].t = "H2"
                                    /\ out[1].k = out[2].k
                            THEN out[1].k ELSE "bad",
                  rest |-> SubSeq(buf, i + 1, Len(buf))]

\* ReceiveBuffer.maybe_extract_next_line: one line with its terminator, or
\* nothing (<<>>) when no line is complete.
MaybeExtractNextLine(buf) ==
    LET EndsLine(tok) == tok.t \in {"size", "crlf", "H2"}
    IN  IF \A i \in 1..Len(buf) : ~EndsLine(buf[i])
        THEN [out |-> <<>>, rest |-> buf]
        ELSE LET i == CHOOSE j \in 1..Len(buf) :
                         EndsLine(buf[j]) /\ \A h \in 1..(j - 1) : ~EndsLine(buf[h])
             IN  [out |-> SubSeq(buf, 1, i), rest |-> SubSeq(buf, i + 1, Len(buf))]

\* ReceiveBuffer.maybe_extract_at_most(count): the first count bytes, fewer
\* if the buffer holds fewer, nothing (<<>>) if it is empty.  Bytes: the
\* len() of a token; a header part is longer than any count asked for.
RECURSIVE MaybeExtractAtMost(_, _)
MaybeExtractAtMost(buf, count) ==
    LET Bytes(tok) == IF tok.t \in {"data", "hex"} THEN 1
                      ELSE IF tok.t = "crlf" THEN 2
                      ELSE IF tok.t = "size" THEN 3
                      ELSE IF tok.t = "part" THEN tok.n
                      ELSE 8
    IN  IF buf = <<>> \/ count <= 0 THEN [out |-> <<>>, rest |-> buf]
        ELSE IF Bytes(buf[1]) <= count
        THEN LET more == MaybeExtractAtMost(Tail(buf), count - Bytes(buf[1]))
             IN  [out |-> <<buf[1]>> \o more.out, rest |-> more.rest]
        ELSE [out |-> <<Tok("part", "", count)>>,
              rest |-> <<Tok("part", "", Bytes(buf[1]) - count)>> \o Tail(buf)]

\* bytes.rstrip(): trailing CR and LF go; a size line keeps its digits.
RECURSIVE RStrip(_)
RStrip(b) ==
    IF b = <<>> THEN <<>>
    ELSE IF b[Len(b)].t = "crlf" THEN RStrip(SubSeq(b, 1, Len(b) - 1))
    ELSE IF b[Len(b)].t = "size"
    THEN SubSeq(b, 1, Len(b) - 1) \o <<Tok("hex", "", b[Len(b)].n)>>
    ELSE b

\* _parse after the header block of kind k (and after the Expect wait), up
\* to the next wait.  Transfer-Encoding: the size line, then one turn of the
\* while loop; Content-Length: whatever has arrived, without a wait.
\* IntHex is int(b, 16), -1 standing for its ValueError.  out: "route" (the
\* body read ended), "error" (an int() raised), "wait" (a further chunk is
\* announced).
ReadBody(k, buf, body) ==
    LET IntHex(b) == IF Len(b) = 1 /\ b[1].t = "hex" THEN b[1].n ELSE -1
        line == MaybeExtractNextLine(buf)
        chunk_size == IntHex(RStrip(line.out))
        next_line == MaybeExtractAtMost(line.rest, chunk_size + 2)
        body1 == body \o RStrip(next_line.out)
        next_size == IntHex(RStrip(next_line.rest))
        content == MaybeExtractAtMost(buf, BodyLen + 1)
    IN  IF k = "chunked"
        THEN IF chunk_size < 0
             THEN [out |-> "error", body |-> body, rest |-> line.rest]
             ELSE IF next_line.out = <<>>
             THEN [out |-> "route", body |-> body, rest |-> next_line.rest]
             ELSE IF next_size < 0
             THEN [out |-> "error", body |-> body1, rest |-> next_line.rest]
             ELSE IF next_size = 0
             THEN [out |-> "route", body |-> body1, rest |-> next_line.rest]
             ELSE [out |-> "wait", body |-> body1, rest |-> next_line.rest]
        ELSE IF k \in {"len", "expect"}
        THEN [out |-> "route", body |-> body \o content.out, rest |-> content.rest]
        ELSE [out |-> "route", body |-> body, rest |-> buf]

\* Where _parse stands once the body read rb ended: the stage result, the
\* receive buffer, the kind of the header block, request_data, the wait the
\* pass is in, and waiting_for_data.  Either data.clear() and the ROUTE
\* tuple, or the except of _parse (the request line is decoded), which
\* leaves the buffer as it is.
Finished(k, rb, flag) ==
    IF rb.out = "route"
    THEN [res |-> ParseResult(RequestOf(k)), buffer |-> <<>>, kind |-> k,
          body |-> rb.body, at |-> "none", flag |-> flag]
    ELSE [res |-> ErrorResult(<<"a">>, "HTTP/1.1", "GET", "request",
                              <<"Bad Request">>, 400),
          buffer |-> rb.rest, kind |-> k, body |-> rb.body, at |-> "none",
          flag |-> flag]

\* _parse from the return of wait_for: request_data += data.read_all(),
\* waiting_for_data.clear(), then the body branches (after the Expect wait)
\* or the while loop, which finds the buffer empty (after the chunk wait).
Resumed(k, buf, body, at) ==
    Finished(k,
             IF at = "expect" THEN ReadBody(k, <<>>, body \o buf)
             ELSE [out |-> "route", body |-> body \o buf, rest |-> <<>>],
             FALSE)

\* waiting_for_data.set(); await asyncio.wait_for(data_ready, ...): a
\* pending future suspends the pass, a cancelled one raises CancelledError
\* out of _parse and _execute, one with a result is not waited for.
AwaitData(k, buf, body, at, nd) ==
    IF nd \in {"pending", "cancelled"}
    THEN [res |-> Result(IF nd = "pending" THEN "IN_PARSE" ELSE "CRASHED", NoArgs),
          buffer |-> buf, kind |-> k, body |-> body, at |-> at, flag |-> TRUE]
    ELSE Resumed(k, buf, body, at)

\* _parse of a pass on the receive buffer buf of its connection, up to its
\* first wait.
ParseOutcome(buf, flag, nd) ==
    LET ex == MaybeExtractLines(buf)
        k == ex.lines
        rb == ReadBody(k, ex.rest, <<>>)
    IN  IF k \in {"none", "empty", "bad"}
        THEN [res |-> ErrorResult(NoRoute, None, None, "request",
                                  <<"Bad Request">>, 400),
              buffer |-> ex.rest, kind |-> "none", body |-> <<>>, at |-> "none",
              flag |-> flag]
        ELSE IF k = "expect" THEN AwaitData(k, ex.rest, <<>>, "expect", nd)
        ELSE IF rb.out = "wait" THEN AwaitData(k, rb.rest, rb.body, "chunk", nd)
        ELSE Finished(k, rb, flag)

\* A connection that was not accepted yet, and the protocol connection_made
\* leaves.  message: what the client sends in all; unsent: what it has still
\* to send; swallowed: segments that neither started a pass nor reached a
\* waiting pass; segments: the calls of data_received.
NoProtocol ==
    [made |-> FALSE, receive_buffer |-> <<>>, next_data |-> "pending",
     message |-> <<>>, unsent |-> <<>>, swallowed |-> 0, segments |-> 0]

\* The locals of _parse of a pass: its connection (0: none), the kind of
\* its header block, request_data, and the wait it is suspended in.
NoFrame == [conn |-> 0, kind |-> "none", request_data |-> <<>>, at |-> "none"]

\* Middleware.__init__: self.wraps = False.  wrappers: for each wrap(...)
\* made so far, whether its handler is another wrapper; calls: the calls
\* __run__ made, each with the wrapper it ran for and the convention used.
NoMiddleware == [wraps |-> FALSE, wrappers |-> <<>>, calls |-> <<>>]

---------------------------------------------------------------------------
\* The Service: run(), start_tasks(), the signal handler abort() and close().

MaxWorkers == 2

Workers == 1..MaxWorkers
TaskNames == {"t1", "t2", "t3"}
Triggers == {"ON_START", "SCHEDULED"}

\* The methods class TaskRunner defines.
TaskRunnerMethods == {"all_tasks", "start_cleanup", "create_task_id", "add", "run",
                      "get_task_status", "get_run_status", "complete", "cancel",
                      "cancel_schedule", "shutdown"}

\* mode: run() without a worker socket and one worker ("single"), with a
\* worker socket ("worker"), or as the parent of a process pool ("parent").
\* at: where run() is.  waiter: self._waiter.  engine: self._engine, which
\* __init__ sets to None and nothing assigns afterwards (the executor of the
\* pool is a local of run()).  cleanup: TaskRunner._cleanup_task.  launched:
\* per registered task, how often it was started.  pool: the worker processes.
NoService ==
    [mode |-> "single", at |-> "IDLE", waiter |-> None, engine |-> None,
     tcp |-> "idle", signalled |-> FALSE, cleanup |-> None,
     trigger |-> [t \in TaskNames |-> "SCHEDULED"],
     launched |-> [t \in TaskNames |-> 0],
     pool |-> [w \in Workers |-> "idle"]]

connection_vars == <<rate_limiting_enabled, chain, closing, wire, received, request,
                     status, args, ctx, obs, breaker, now, next_data, backoff_sem,
                     limiter_vars, request_caching_enabled, cache, worker_vars>>

\* Service.run up to its first wait: the signal handlers are installed; the
\* parent of a pool submits start_pool once per worker and awaits
\* gather(*pool); otherwise connect_async binds and serves.
ServiceRun ==
    /\ service.at = "START"
    /\ service' = IF service.mode = "parent"
                  THEN [service EXCEPT !.at = "GATHER",
                                       !.pool = [w \in Workers |-> "running"]]
                  ELSE [service EXCEPT !.at = "CONNECTED", !.tcp = "serving"]
    /\ UNCHANGED connection_vars

\* self.tasks.start(task.name) for the first ON_START task: an attribute
\* TaskRunner does not have raises AttributeError before anything is started.
TaskRunnerStart(launched, t) ==
    IF "start" \in TaskRunnerMethods
    THEN [raised |-> FALSE, launched |-> [launched EXCEPT ![t] = @ + 1]]
    ELSE [raised |-> TRUE, launched |-> launched]

\* start_tasks, and run() up to "await self._waiter".  An exception leaves
\* run(); in a worker the module-level run() swallows it, cancels every task
\* of the loop and returns.
StartTasks ==
    /\ service.at = "CONNECTED"
    /\ LET onstart == {t \in TaskNames : service.trigger[t] = "ON_START"}
           first == CHOOSE t \in onstart : TRUE
           started == TaskRunnerStart(service.launched, first)
       IN  service' =
             IF onstart = {}
             THEN [service EXCEPT !.cleanup = "running", !.at = "WAITING",
                                  !.waiter = "pending"]
             ELSE IF started.raised
             THEN [service EXCEPT !.cleanup = IF service.mode = "worker"
                                               THEN "cancelled" ELSE "running",
                                  !.at = IF service.mode = "worker"
                                         THEN "RETURNED" ELSE "RAISED"]
             ELSE [service EXCEPT !.cleanup = "running", !.at = "WAITING",
                                  !.waiter = "pending",
                                  !.launched = [t \in TaskNames |->
                                     IF t \in onstart THEN service.launched[t] + 1
                                     ELSE service.launched[t]]]
    /\ UNCHANGED connection_vars

\* Service.abort, the handler of SIGINT and SIGTERM, on a server that is
\* running: the engine is shut down if self._engine is set, the connection
\* is aborted and the waiter is resolved if there is one.
Abort ==
    /\ service.at \in {"WAITING", "GATHER"}
    /\ ~service.signalled
    /\ service' = [service EXCEPT
                      !.signalled = TRUE,
                      !.pool = IF service.engine # None
                               THEN [w \in Workers |-> "returned"] ELSE @,
                      !.tcp = IF @ = "serving" THEN "aborted" ELSE @,
                      !.waiter = IF @ = "pending" THEN "done" ELSE @]
    /\ UNCHANGED connection_vars

\* A worker process of the pool ends: it was signalled itself, or it failed.
WorkerReturns(w) ==
    /\ service.mode = "parent"
    /\ service.pool[w] = "running"
    /\ service' = [service EXCEPT !.pool[w] = "returned"]
    /\ UNCHANGED connection_vars

\* "await self._waiter" or "await asyncio.gather(*pool)" returns.
WaitOver ==
    /\ \/ service.at = "WAITING" /\ service.waiter = "done"
       \/ service.at = "GATHER" /\ \A w \in Workers : service.pool[w] = "returned"
    /\ service' = [service EXCEPT !.at = "CLOSING"]
    /\ UNCHANGED connection_vars

\* Service.close, and the return of run(); in a worker the module-level
\* run() then cancels every task of the loop.
Close ==
    /\ service.at = "CLOSING"
    /\ service' = [service EXCEPT
                      !.at = "RETURNED",
                      !.tcp = "closed",
                      !.waiter = IF @ = "pending" THEN "done" ELSE @,
                      !.cleanup = IF service.mode = "worker" /\ @ = "running"
                                  THEN "cancelled" ELSE @]
    /\ UNCHANGED connection_vars

InitCommon ==
    /\ closing = FALSE
    /\ wire = <<>>
    /\ received = 0
    /\ request = [r \in Reqs |-> NoRequest]
    /\ status = [r \in Reqs |-> "IDLE"]
    /\ args = [r \in Reqs |-> NoArgs]
    /\ ctx = [r \in Reqs |-> NewContext]
    /\ obs = [r \in Reqs |-> NoObs]
    /\ breaker = BreakerInit
    /\ now = 0
    /\ next_data = "pending"
    /\ backoff_sem = BackoffRate
    /\ rate_limiters = {}
    /\ charged = <<>>
    /\ cache = {}
    /\ waiting_for_data = FALSE
    /\ response_headers = RegisteredHeaders
    /\ middleware = NoMiddleware
    /\ proto = [c \in 1..MaxConns |-> NoProtocol]
    /\ frame = [r \in Reqs |-> NoFrame]

\* __init__: rate limiting is enabled unless the strategy is "none".
RateLimitingEnabled(strategy) == strategy # "none"

Init ==
    /\ rate_limit_strategy \in {"none", "global"}
    /\ rate_limiting_enabled = RateLimitingEnabled(rate_limit_strategy)
    /\ chain \in Chains
    /\ InitCommon
    /\ request_caching_enabled = FALSE
    /\ service = NoService

\* _execute: the dispatch on the stage result.
Dispatch(r, res) ==
    /\ status' = [status EXCEPT ![r] = res.st]
    /\ args' = [args EXCEPT ![r] = res.args]

Entered(o, st) == [o EXCEPT !.hist = Append(o.hist, st)]

\* transport.write(...) by pass r.
Write(r, code) == Append(wire, [req |-> obs[r].seq, code |-> code])

\* The bytes of rq are those of a request of this connection that has been
\* answered with a complete response.
Answered(rq) ==
    \E q \in Reqs : /\ request[q] = rq /\ status[q] = "DONE"
                    /\ obs[q].writes = 1 /\ obs[q].code \in {200, NoStatus}

\* MercurySyncTCPServerProtocol.data_received -> read: a task per request.
\* read() hands every request to _execute; neither looks into self._cache.
DataReceived(r, rq) ==
    /\ LoopIdle
    /\ ~closing
    /\ \A q \in Reqs : status[q] # "IN_PARSE"
    /\ status[r] = "IDLE"
    /\ \A q \in Reqs : q < r => status[q] # "IDLE"
    /\ received' = received + 1
    /\ request' = [request EXCEPT ![r] = rq]
    /\ status' = [status EXCEPT ![r] = "PARSE"]
    /\ obs' = [obs EXCEPT ![r] = [NoObs EXCEPT !.seq = received + 1,
                                                !.repeat = Answered(rq)]]
    /\ UNCHANGED <<next_data, backoff_sem, limiter_vars, service_vars, worker_vars>>
    /\ UNCHANGED <<rate_limiting_enabled, chain, closing, wire, args, ctx, breaker, now>>

\* _execute -> _parse, up to the wait for the data that follows a 100 Continue.
\* A _next_data that is done already is not waited for; one that was
\* cancelled ends the task with CancelledError.
Parse(r) ==
    /\ status[r] = "PARSE"
    /\ IF ExpectsContinue(request[r], closing)
       THEN /\ obs' = [obs EXCEPT ![r].interim = @ + 1]
            /\ IF next_data = "pending"
               THEN status' = [status EXCEPT ![r] = "IN_PARSE"] /\ UNCHANGED args
               ELSE IF next_data = "cancelled"
               THEN status' = [status EXCEPT ![r] = "CRASHED"] /\ UNCHANGED args
               ELSE Dispatch(r, ParseResult(request[r]))
       ELSE Dispatch(r, ParseResult(request[r])) /\ UNCHANGED obs
    /\ UNCHANGED <<next_data, backoff_sem, limiter_vars, service_vars, worker_vars>>
    /\ UNCHANGED <<rate_limiting_enabled, chain, closing, wire, received, request,
                   ctx, breaker, now>>

\* data_received -> _next_data.set_result(...), or the wait_for in _parse
\* expires and cancels _next_data.
ParseResume(r) ==
    /\ LoopIdle
    /\ status[r] = "IN_PARSE"
    /\ \E outcome \in {"data", "timeout"} :
        /\ outcome = "data" => ~closing
        /\ next_data' = IF outcome = "data" THEN "result" ELSE "cancelled"
        /\ Dispatch(r, IF outcome = "data" THEN ParseResult(request[r])
                       ELSE TimeoutResult(request[r]))
    /\ UNCHANGED <<backoff_sem, limiter_vars, service_vars, worker_vars>>
    /\ UNCHANGED <<rate_limiting_enabled, chain, closing, wire, received, request,
                   ctx, obs, breaker, now>>

Route(r) ==
    /\ status[r] = "ROUTE"
    /\ Dispatch(r, IF args[r].n = RouteArity
                   THEN RouteResult(args[r], request[r].valid)
                   ELSE Result("RAISED", args[r]))
    /\ obs' = [obs EXCEPT ![r] = Entered(@, "ROUTE")]
    /\ UNCHANGED <<next_data, backoff_sem, limiter_vars, service_vars, worker_vars>>
    /\ UNCHANGED <<rate_limiting_enabled, chain, closing, wire, received, request,
                   ctx, breaker, now>>

\* _rate_limit up to "await self._limiter.limit(...)".
RateLimitCall(r) ==
    /\ status[r] = "RATE_LIMIT"
    /\ status' = [status EXCEPT ![r] = IF args[r].n = RateLimitArity
                                       THEN "IN_LIMITER" ELSE "RAISED"]
    /\ obs' = [obs EXCEPT ![r] = Entered(@, "RATE_LIMIT")]
    /\ UNCHANGED <<next_data, backoff_sem, limiter_vars, service_vars, worker_vars>>
    /\ UNCHANGED <<rate_limiting_enabled, chain, closing, wire, received, request,
                   args, ctx, breaker, now>>

RateLimitReturn(r) ==
    /\ LoopIdle
    /\ status[r] = "IN_LIMITER"
    /\ \E outcome \in LimiterOutcomes :
        /\ Dispatch(r, RateLimitResult(args[r], outcome, closing))
        /\ obs' = [obs EXCEPT ![r].limited =
                      IF outcome = "reject" THEN "rejected"
                      ELSE IF outcome = "accept" THEN "accepted" ELSE "failed",
                               ![r].rejectedOpen = outcome = "reject" /\ ~closing]
    /\ UNCHANGED <<next_data, backoff_sem, limiter_vars, service_vars, worker_vars>>
    /\ UNCHANGED <<rate_limiting_enabled, chain, closing, wire, received, request,
                   ctx, breaker, now>>

\* _run_middleware up to the point where the registered callable either
\* returned without the route handler being called, or awaits the handler.
MiddlewareCall(r) ==
    /\ status[r] = "MIDDLEWARE"
    /\ IF args[r].n # MiddlewareArity
       THEN /\ status' = [status EXCEPT ![r] = "RAISED"]
            /\ obs' = [obs EXCEPT ![r] = Entered(@, "MIDDLEWARE")]
            /\ UNCHANGED <<args, ctx, breaker, response_headers>>
       ELSE \E outs \in [1..Len(chain) -> RunOutcomes], draw \in BOOLEAN :
            LET w == PreWalk(Len(chain),
                             Walk(NewContext, breaker, 0, 0, FALSE, FALSE), outs, draw)
                o == [Entered(obs[r], "MIDDLEWARE") EXCEPT
                         !.runs = w.runs, !.halted = w.halted,
                         !.openEntry = w.openEntry]
            IN  IF w.stop = 0
                THEN /\ status' = [status EXCEPT ![r] = "IN_MW_HANDLER"]
                     /\ obs' = [obs EXCEPT ![r] = [o EXCEPT !.handler = @ + 1,
                                                            !.t0 = now]]
                     /\ ctx' = [ctx EXCEPT ![r] = w.ctx]
                     /\ breaker' = w.b
                     /\ UNCHANGED <<args, response_headers>>
                ELSE LET post == PostWalk(w.stop + 1, w, "ok")
                     IN  /\ Dispatch(r, MiddlewareResult(args[r], post.w.ctx, None,
                                                         FALSE, closing))
                         /\ obs' = [obs EXCEPT ![r] =
                                       [o EXCEPT !.counted = CountDelta(w.b, post.w.b)]]
                         /\ ctx' = [ctx EXCEPT ![r] = post.w.ctx]
                         /\ breaker' = post.w.b
                         /\ response_headers' =
                                UpdatedHeaders(response_headers, post.w.ctx, FALSE)
    /\ UNCHANGED <<next_data, backoff_sem, limiter_vars, service_vars>>
    /\ UNCHANGED <<waiting_for_data, proto, frame, middleware>>
    /\ UNCHANGED <<rate_limiting_enabled, chain, closing, wire, received, request, now>>

\* asyncio.wait_for(handler(...), timeout=handler_timeout) expires.
Expired(r) == HasBreaker /\ now - obs[r].t0 >= HandlerTimeout

\* The route handler called by the innermost wrapper answered (or the
\* breaker's timeout expired), and the wrappers return.
MiddlewareReturn(r) ==
    /\ LoopIdle
    /\ status[r] = "IN_MW_HANDLER"
    /\ \E outcome \in HandlerOutcomes \cup {"timeout"} :
        /\ outcome = "timeout" <=> Expired(r)
        /\ LET post == PostWalk(1, Walk(ctx[r], breaker, 0, 0, FALSE, FALSE),
                                IF outcome = "bad" THEN "ok" ELSE outcome)
               data == IF outcome = "ok" THEN "str"
                       ELSE IF outcome = "bad" THEN "bad" ELSE None
           IN  /\ Dispatch(r, MiddlewareResult(args[r], post.w.ctx, data,
                                               post.outcome = "raise", closing))
               /\ ctx' = [ctx EXCEPT ![r] = post.w.ctx]
               /\ breaker' = post.w.b
               /\ obs' = [obs EXCEPT ![r].hout = outcome,
                                      ![r].counted = CountDelta(breaker, post.w.b)]
               /\ response_headers' =
                      UpdatedHeaders(response_headers, post.w.ctx,
                                     post.outcome = "raise")
    /\ UNCHANGED <<next_data, backoff_sem, limiter_vars, service_vars>>
    /\ UNCHANGED <<waiting_for_data, proto, frame, middleware>>
    /\ UNCHANGED <<rate_limiting_enabled, chain, closing, wire, received, request, now>>

\* _execute -> _handle(*args), up to "await handler(*args, **kwargs)".
HandleCall(r) ==
    /\ status[r] = "HANDLE"
    /\ IF args[r].n = HandleArity
       THEN /\ status' = [status EXCEPT ![r] = "IN_HANDLER"]
            /\ obs' = [obs EXCEPT ![r] = [Entered(@, "HANDLE") EXCEPT !.handler = @ + 1]]
       ELSE /\ status' = [status EXCEPT ![r] = "RAISED"]
            /\ obs' = [obs EXCEPT ![r] = Entered(@, "HANDLE")]
    /\ UNCHANGED <<next_data, backoff_sem, limiter_vars, service_vars, worker_vars>>
    /\ UNCHANGED <<rate_limiting_enabled, chain, closing, wire, received, request,
                   args, ctx, breaker, now>>

HandleReturn(r) ==
    /\ LoopIdle
    /\ status[r] = "IN_HANDLER"
    /\ \E outcome \in HandlerOutcomes :
        /\ Dispatch(r, HandleResult(args[r], outcome))
        /\ obs' = [obs EXCEPT ![r].hout = outcome]
    /\ UNCHANGED <<next_data, backoff_sem, limiter_vars, service_vars, worker_vars>>
    /\ UNCHANGED <<rate_limiting_enabled, chain, closing, wire, received, request,
                   ctx, breaker, now>>

\* A case COMPLETE without its break: the loop goes on with the status that
\* _complete_request returned, None (which no case matches) or ERROR.
CompleteRequestNoBreak(r) ==
    /\ status[r] = "COMPLETE"
    /\ IF args[r].n # CompleteArity \/ CompleteFails(args[r])
       THEN /\ status' = [status EXCEPT ![r] = "ERROR"]
            /\ obs' = [obs EXCEPT ![r] = [Entered(@, "COMPLETE") EXCEPT !.lost = TRUE]]
            /\ args' = [args EXCEPT ![r] =
                           ErrorResult(@.path, @.version, @.method, "route",
                                       <<"exception">>, 500).args]
            /\ UNCHANGED wire
       ELSE /\ status' = [status EXCEPT ![r] = "NONE"]
            /\ wire' = Write(r, args[r].code)
            /\ obs' = [obs EXCEPT ![r] = [Entered(@, "COMPLETE") EXCEPT
                                             !.writes = @ + 1, !.code = args[r].code,
                                             !.ctype = ContentType(args[r])]]
            /\ UNCHANGED args
    /\ UNCHANGED <<next_data, backoff_sem, limiter_vars, service_vars, worker_vars>>
    /\ UNCHANGED <<rate_limiting_enabled, chain, closing, received, request,
                   ctx, breaker, now>>

\* case COMPLETE: status, args = self._complete_request(...); break
CompleteRequest(r) ==
    /\ status[r] = "COMPLETE"
    /\ status' = [status EXCEPT ![r] = "DONE"]
    /\ IF args[r].n # CompleteArity \/ CompleteFails(args[r])
       THEN /\ obs' = [obs EXCEPT ![r] = [Entered(@, "COMPLETE") EXCEPT !.lost = TRUE]]
            /\ args' = [args EXCEPT ![r] =
                           ErrorResult(@.path, @.version, @.method, "route",
                                       <<"exception">>, 500).args]
            /\ UNCHANGED wire
       ELSE /\ wire' = Write(r, args[r].code)
            /\ obs' = [obs EXCEPT ![r] = [Entered(@, "COMPLETE") EXCEPT
                                             !.writes = @ + 1, !.code = args[r].code,
                                             !.ctype = ContentType(args[r])]]
            /\ UNCHANGED args
    /\ UNCHANGED <<next_data, backoff_sem, limiter_vars, service_vars, worker_vars>>
    /\ UNCHANGED <<rate_limiting_enabled, chain, closing, received, request,
                   ctx, breaker, now>>

\* case ERROR: await self._handle_error(transport, *args); break
HandleError(r) ==
    /\ status[r] = "ERROR"
    /\ LET out == IF args[r].n # ErrorArity THEN "raised"
                  ELSE HandleErrorOutcome(args[r], closing)
       IN  /\ status' = [status EXCEPT ![r] = IF out = "raised" THEN "RAISED" ELSE "DONE"]
           /\ wire' = IF out = "written" THEN Write(r, args[r].code) ELSE wire
           /\ obs' = [obs EXCEPT ![r] =
                         IF out = "written"
                         THEN [Entered(@, "ERROR") EXCEPT !.writes = @ + 1,
                                                          !.code = args[r].code,
                                                          !.ctype = ContentType(args[r])]
                         ELSE Entered(@, "ERROR")]
    /\ UNCHANGED <<next_data, backoff_sem, limiter_vars, service_vars, worker_vars>>
    /\ UNCHANGED <<rate_limiting_enabled, chain, closing, received, request, args,
                   ctx, breaker, now>>

\* case ABORTED: await self._abort_request(transport, *args); break
AbortRequest(r) ==
    /\ status[r] = "ABORTED"
    /\ IF args[r].n = AbortArity
       THEN /\ status' = [status EXCEPT ![r] = "DONE"]
            /\ closing' = TRUE
            /\ obs' = [obs EXCEPT ![r] = [Entered(@, "ABORTED") EXCEPT !.closes = @ + 1]]
       ELSE /\ status' = [status EXCEPT ![r] = "RAISED"]
            /\ obs' = [obs EXCEPT ![r] = Entered(@, "ABORTED")]
            /\ UNCHANGED closing
    /\ UNCHANGED <<next_data, backoff_sem, limiter_vars, service_vars, worker_vars>>
    /\ UNCHANGED <<rate_limiting_enabled, chain, wire, received, request, args,
                   ctx, breaker, now>>

\* The arguments of the _handle_error call in the outer except of _execute.
ExceptArgs == Tuple(ErrorArity, NoRoute, None, None, None, <<"exception">>, 500, NoKey, None)

\* except Exception: await self._handle_error(transport, None, None, None, None, ...)
ExecuteExcept(r) ==
    /\ status[r] = "RAISED"
    /\ LET out == HandleErrorOutcome(ExceptArgs, closing)
       IN  /\ status' = [status EXCEPT ![r] = IF out = "raised" THEN "CRASHED" ELSE "DONE"]
           /\ wire' = IF out = "written" THEN Write(r, ExceptArgs.code) ELSE wire
           /\ obs' = [obs EXCEPT ![r] =
                         IF out = "written"
                         THEN [Entered(@, "EXCEPT") EXCEPT !.writes = @ + 1,
                                                           !.code = ExceptArgs.code,
                                                           !.ctype = ContentType(ExceptArgs)]
                         ELSE Entered(@, "EXCEPT")]
    /\ UNCHANGED <<next_data, backoff_sem, limiter_vars, service_vars, worker_vars>>
    /\ UNCHANGED <<rate_limiting_enabled, chain, closing, received, request, args,
                   ctx, breaker, now>>

\* _handle_error and _abort_request at a finer grain: the log write inside
\* "async with self._backoff_sem" suspends the task, so that other passes
\* run while a slot is held.

\* Semaphore.__aexit__: the slot goes back however the body ended.
\* A section that keeps its slot when the body raised.
ReleaseUnlessRaised(sem, out) == IF out = "raised" THEN sem ELSE sem + 1

Release(sem, out) == sem + 1

\* Semaphore.acquire: take a slot if one is free, else wait for one.
EnterSection(r, wait, inside) ==
    IF backoff_sem > 0
    THEN /\ backoff_sem' = backoff_sem - 1
         /\ status' = [status EXCEPT ![r] = inside]
    ELSE /\ status' = [status EXCEPT ![r] = wait]
         /\ UNCHANGED backoff_sem

\* A waiting pass is woken when a slot is free.
BackoffAcquire(r) ==
    /\ LoopIdle
    /\ status[r] \in {"WAIT_ERROR", "WAIT_EXCEPT"}
    /\ backoff_sem > 0
    /\ backoff_sem' = backoff_sem - 1
    /\ status' = [status EXCEPT ![r] = IF @ = "WAIT_ERROR" THEN "IN_ERROR"
                                       ELSE "IN_EXCEPT"]
    /\ UNCHANGED <<next_data, limiter_vars, service_vars, worker_vars>>
    /\ UNCHANGED <<rate_limiting_enabled, chain, closing, wire, received, request,
                   args, ctx, obs, breaker, now>>

\* case ERROR: _handle_error up to the log write inside the section.
HandleErrorEnter(r) ==
    /\ status[r] = "ERROR"
    /\ obs' = [obs EXCEPT ![r] = Entered(@, "ERROR")]
    /\ IF args[r].n # ErrorArity
       THEN status' = [status EXCEPT ![r] = "RAISED"] /\ UNCHANGED backoff_sem
       ELSE EnterSection(r, "WAIT_ERROR", "IN_ERROR")
    /\ UNCHANGED <<next_data, limiter_vars, service_vars, worker_vars>>
    /\ UNCHANGED <<rate_limiting_enabled, chain, closing, wire, received, request,
                   args, ctx, breaker, now>>

\* _handle_error from the log write to the end of the section.
HandleErrorReply(r) ==
    /\ LoopIdle
    /\ status[r] = "IN_ERROR"
    /\ LET out == HandleErrorOutcome(args[r], closing)
       IN  /\ status' = [status EXCEPT ![r] = IF out = "raised" THEN "RAISED" ELSE "DONE"]
           /\ wire' = IF out = "written" THEN Write(r, args[r].code) ELSE wire
           /\ obs' = [obs EXCEPT ![r] =
                         IF out = "written"
                         THEN [@ EXCEPT !.writes = @ + 1, !.code = args[r].code,
                                        !.ctype = ContentType(args[r])]
                         ELSE @]
           /\ backoff_sem' = Release(backoff_sem, out)
    /\ UNCHANGED <<next_data, limiter_vars, service_vars, worker_vars>>
    /\ UNCHANGED <<rate_limiting_enabled, chain, closing, received, request, args,
                   ctx, breaker, now>>

\* except Exception: _handle_error up to the log write inside the section.
ExceptEnter(r) ==
    /\ status[r] = "RAISED"
    /\ obs' = [obs EXCEPT ![r] = Entered(@, "EXCEPT")]
    /\ EnterSection(r, "WAIT_EXCEPT", "IN_EXCEPT")
    /\ UNCHANGED <<next_data, limiter_vars, service_vars, worker_vars>>
    /\ UNCHANGED <<rate_limiting_enabled, chain, closing, wire, received, request,
                   args, ctx, breaker, now>>

ExceptReply(r) ==
    /\ LoopIdle
    /\ status[r] = "IN_EXCEPT"
    /\ LET out == HandleErrorOutcome(ExceptArgs, closing)
       IN  /\ status' = [status EXCEPT ![r] = IF out = "raised" THEN "CRASHED" ELSE "DONE"]
           /\ wire' = IF out = "written" THEN Write(r, ExceptArgs.code) ELSE wire
           /\ obs' = [obs EXCEPT ![r] =
                         IF out = "written"
                         THEN [@ EXCEPT !.writes = @ + 1, !.code = ExceptArgs.code,
                                        !.ctype = ContentType(ExceptArgs)]
                         ELSE @]
           /\ backoff_sem' = Release(backoff_sem, out)
    /\ UNCHANGED <<next_data, limiter_vars, service_vars, worker_vars>>
    /\ UNCHANGED <<rate_limiting_enabled, chain, closing, received, request, args,
                   ctx, breaker, now>>

\* The peer closes the socket: the transport is closing from now on.
PeerClose ==
    /\ LoopIdle
    /\ ~closing
    /\ received > 0
    /\ closing' = TRUE
    /\ UNCHANGED <<next_data, backoff_sem, limiter_vars, service_vars, worker_vars>>
    /\ UNCHANGED <<rate_limiting_enabled, chain, wire, received, request, status,
                   args, ctx, obs, breaker, now>>

Next ==
    \/ \E r \in Reqs, rq \in Requests : DataReceived(r, rq)
    \/ \E r \in Reqs : Parse(r)
    \/ \E r \in Reqs : ParseResume(r)
    \/ \E r \in Reqs : Route(r)
    \/ \E r \in Reqs : RateLimitCall(r)
    \/ \E r \in Reqs : RateLimitReturn(r)
    \/ \E r \in Reqs : MiddlewareCall(r)
    \/ \E r \in Reqs : MiddlewareReturn(r)
    \/ \E r \in Reqs : HandleCall(r)
    \/ \E r \in Reqs : HandleReturn(r)
    \/ \E r \in Reqs : CompleteRequest(r)
    \/ \E r \in Reqs : HandleError(r)
    \/ \E r \in Reqs : AbortRequest(r)
    \/ \E r \in Reqs : ExecuteExcept(r)
    \/ PeerClose

Spec == Init /\ [][Next]_vars

\* A step of the pass r itself: of its _execute loop, or the return of a
\* call the loop awaits.
PassStep(r) ==
    \/ Parse(r) \/ ParseResume(r) \/ Route(r)
    \/ RateLimitCall(r) \/ RateLimitReturn(r)
    \/ MiddlewareCall(r) \/ MiddlewareReturn(r)
    \/ HandleCall(r) \/ HandleReturn(r)
    \/ CompleteRequest(r) \/ HandleError(r) \/ AbortRequest(r)
    \/ ExecuteExcept(r)

\* A service with at most one middleware, in which the event loop runs
\* every task that can run, and the limiter, the middleware and the handler
\* return to the pass that awaits them.
LiveInit == Init /\ Len(chain) <= 1

LiveSpec == LiveInit /\ [][Next]_vars /\ \A r \in Reqs : WF_vars(PassStep(r))

---------------------------------------------------------------------------
\* The circuit breaker under load: a service whose only middleware is the
\* CircuitBreaker, clients that keep sending GET /a, and a clock.

ServedRequests ==
    {rq \in Requests : rq.wellformed /\ rq.valid /\ rq.method = "GET"
                       /\ rq.target = <<"a">> /\ rq.host = "Host"}

BreakerInitState ==
    /\ rate_limit_strategy = "none"
    /\ rate_limiting_enabled = RateLimitingEnabled(rate_limit_strategy)
    /\ chain = <<"breaker">>
    /\ InitCommon
    /\ request_caching_enabled = FALSE
    /\ service = NoService

\* loop.time() advances.  A pending wait_for fires at its deadline, so the
\* clock does not pass the deadline of a handler that is still awaited.
Tick ==
    /\ LoopIdle
    /\ now < MaxTime
    /\ \A r \in Reqs : status[r] = "IN_MW_HANDLER" => ~Expired(r)
    /\ now' = now + 1
    /\ UNCHANGED <<next_data, backoff_sem, limiter_vars, service_vars, worker_vars>>
    /\ UNCHANGED <<rate_limiting_enabled, chain, closing, wire, received, request,
                   status, args, ctx, obs, breaker>>

\* The task of an ended pass is gone and the client has read its response.
Recycle(r) ==
    /\ LoopIdle
    /\ Ended(r)
    /\ received < MaxServed
    /\ status' = [status EXCEPT ![r] = "IDLE"]
    /\ request' = [request EXCEPT ![r] = NoRequest]
    /\ args' = [args EXCEPT ![r] = NoArgs]
    /\ ctx' = [ctx EXCEPT ![r] = NewContext]
    /\ wire' = SelectSeq(wire, LAMBDA e : e.req # obs[r].seq)
    /\ obs' = [obs EXCEPT ![r] = NoObs]
    /\ UNCHANGED <<next_data, backoff_sem, limiter_vars, service_vars, worker_vars>>
    /\ UNCHANGED <<rate_limiting_enabled, chain, closing, received, breaker, now>>

\* An ended pass takes no further part in the run: it is cleared before the
\* next request is taken or the clock advances.
Settled == received < MaxServed => \A r \in Reqs : ~Ended(r)

\* Up to MaxReq requests in flight at a time, no rate limiting.
BreakerNext ==
    \/ \E r \in Reqs, rq \in ServedRequests :
           received < MaxServed /\ Settled /\ DataReceived(r, rq)
    \/ \E r \in Reqs : Parse(r)
    \/ \E r \in Reqs : Route(r)
    \/ \E r \in Reqs : MiddlewareCall(r)
    \/ \E r \in Reqs : MiddlewareReturn(r)
    \/ \E r \in Reqs : CompleteRequest(r)
    \/ \E r \in Reqs : HandleError(r)
    \/ \E r \in Reqs : Recycle(r)
    \/ Settled /\ Tick

BreakerSpec == BreakerInitState /\ [][BreakerNext]_vars

\* The same service with rate limiting enabled, a client that sends its next
\* request after the previous pass ended, and that may close the socket.
LimitedInitState ==
    /\ rate_limit_strategy = "global"
    /\ rate_limiting_enabled = RateLimitingEnabled(rate_limit_strategy)
    /\ chain = <<"breaker">>
    /\ InitCommon
    /\ request_caching_enabled = FALSE
    /\ service = NoService

LimitedNext ==
    \/ \E r \in Reqs, rq \in ServedRequests :
           /\ received < MaxServed
           /\ \A q \in Reqs : status[q] = "IDLE"
           /\ DataReceived(r, rq)
    \/ \E r \in Reqs : Parse(r)
    \/ \E r \in Reqs : Route(r)
    \/ \E r \in Reqs : RateLimitCall(r)
    \/ \E r \in Reqs : RateLimitReturn(r)
    \/ \E r \in Reqs : MiddlewareCall(r)
    \/ \E r \in Reqs : MiddlewareReturn(r)
    \/ \E r \in Reqs : CompleteRequest(r)
    \/ \E r \in Reqs : HandleError(r)
    \/ \E r \in Reqs : AbortRequest(r)
    \/ \E r \in Reqs : ExecuteExcept(r)
    \/ \E r \in Reqs : Recycle(r)
    \/ PeerClose
    \/ Settled /\ Tick

LimitedSpec == LimitedInitState /\ [][LimitedNext]_vars

---------------------------------------------------------------------------
\* Request caching enabled: a service without middleware or rate limiting
\* and a client that repeats its requests.

CachedRequests ==
    {rq \in Requests : rq.wellformed /\ rq.valid /\ rq.method = "GET"
                       /\ rq.target \in {<<"a">>, <<"u", "7">>} /\ rq.host = "Host"}

CachedInitState ==
    /\ rate_limit_strategy = "none"
    /\ rate_limiting_enabled = RateLimitingEnabled(rate_limit_strategy)
    /\ chain = <<>>
    /\ InitCommon
    /\ request_caching_enabled = TRUE
    /\ service = NoService

CachedNext ==
    \/ \E r \in Reqs, rq \in CachedRequests : DataReceived(r, rq)
    \/ \E r \in Reqs : Parse(r)
    \/ \E r \in Reqs : Route(r)
    \/ \E r \in Reqs : HandleCall(r)
    \/ \E r \in Reqs : HandleReturn(r)
    \/ \E r \in Reqs : CompleteRequest(r)
    \/ \E r \in Reqs : HandleError(r)
    \/ PeerClose

CachedSpec == CachedInitState /\ [][CachedNext]_vars

---------------------------------------------------------------------------
\* The reply sections under contention: a service without middleware, with
\* or without rate limiting, whose error replies suspend at the log write.
BackoffInitState ==
    /\ rate_limit_strategy \in {"none", "global"}
    /\ rate_limiting_enabled = RateLimitingEnabled(rate_limit_strategy)
    /\ chain = <<>>
    /\ InitCommon
    /\ request_caching_enabled = FALSE
    /\ service = NoService

\* Requests that end in the handler, in a 4xx reply or in a reply that raises.
BackoffRequests ==
    {rq \in Requests : /\ rq.method = "GET" /\ rq.host = "Host"
                       /\ rq.target \in {<<"a">>, <<"zz">>}}

BackoffNext ==
    \/ \E r \in Reqs, rq \in BackoffRequests : DataReceived(r, rq)
    \/ \E r \in Reqs : Parse(r)
    \/ \E r \in Reqs : Route(r)
    \/ \E r \in Reqs : RateLimitCall(r)
    \/ \E r \in Reqs : RateLimitReturn(r)
    \/ \E r \in Reqs : HandleCall(r)
    \/ \E r \in Reqs : HandleReturn(r)
    \/ \E r \in Reqs : CompleteRequest(r)
    \/ \E r \in Reqs : HandleErrorEnter(r)
    \/ \E r \in Reqs : HandleErrorReply(r)
    \/ \E r \in Reqs : AbortRequest(r)
    \/ \E r \in Reqs : ExceptEnter(r)
    \/ \E r \in Reqs : ExceptReply(r)
    \/ \E r \in Reqs : BackoffAcquire(r)
    \/ PeerClose

BackoffSpec == BackoffInitState /\ [][BackoffNext]_vars

---------------------------------------------------------------------------
\* The Limiter: which limiter instance a request is counted against.
\* Strings are sequences of characters; a key is <<"addr", s>> for an
\* ipaddress object and <<"str", s>> for a str.

Strategies == {"ip", "endpoint", "global", "ip-endpoint", "custom"}
Ips == {<<"1">>, <<"2">>}
Paths == {<<"a">>, <<"a", "_", "1">>}
DefaultKey == <<"str", <<"default">>>>

\* Limit.limit_key functions a route may declare.
KeyFunction(name, path, method, ip) ==
    IF name = "path" THEN <<"str", path>> ELSE <<"str", <<>>>>

Rule(name) == name = "always"

\* Limiter._default_limit, and the limits a route may declare (handler.limit).
DefaultLimit == [set |-> TRUE, limit_key |-> None, has_rules |-> FALSE, rules |-> <<>>]
NoLimit == [set |-> FALSE, limit_key |-> None, has_rules |-> FALSE, rules |-> <<>>]
RouteLimits ==
    {NoLimit,
     [set |-> TRUE, limit_key |-> "path", has_rules |-> FALSE, rules |-> <<>>],
     [set |-> TRUE, limit_key |-> "blank", has_rules |-> FALSE, rules |-> <<>>],
     [set |-> TRUE, limit_key |-> None, has_rules |-> TRUE,
      rules |-> <<"always", "never">>]}

\* Limit.get_key
GetKey(limit, path, method, ip, default) ==
    IF limit.limit_key = None THEN default
    ELSE KeyFunction(limit.limit_key, path, method, ip)

\* Limit.matches: the answer of the last rule.
LimitMatches(limit) ==
    IF ~limit.has_rules THEN TRUE
    ELSE IF limit.rules = <<>> THEN FALSE
    ELSE Rule(limit.rules[Len(limit.rules)])

\* Limiter.limit, lines 96-145: the limit used and the limit key.
UsedLimit(strategy, limit) ==
    IF strategy = "global" \/ ~limit.set THEN DefaultLimit ELSE limit

LimitKey(strategy, limit, path, method, ip) ==
    LET l == IF limit.set THEN limit ELSE DefaultLimit
    IN  IF strategy = "ip" THEN GetKey(l, path, method, ip, <<"addr", ip>>)
        ELSE IF strategy = "endpoint" THEN GetKey(l, path, method, ip, <<"str", path>>)
        ELSE IF strategy = "global"
        THEN GetKey(DefaultLimit, path, method, ip, DefaultKey)
        ELSE IF strategy = "ip-endpoint"
        THEN GetKey(l, path, method, ip, <<"str", path \o <<"_">> \o ip>>)
        ELSE GetKey(l, path, method, ip, DefaultKey)

\* if limit_key and limit.matches(...): the limiter is consulted.
Consulted(key, limit) == key[2] # <<>> /\ LimitMatches(limit)

\* _check_limiter: the instance for a key, created when there is none.
\* A lookup that makes a new instance on every call.
InstanceAlwaysNew(limiters, key) == Cardinality(limiters) + 1

InstanceFor(limiters, key) ==
    IF \E e \in limiters : e.key = key
    THEN (CHOOSE e \in limiters : e.key = key).id
    ELSE Cardinality(limiters) + 1

\* Limiter.limit for one request.
LimiterLimit(ip, path, method, limit) ==
    /\ Len(charged) < MaxCalls
    /\ LET key == LimitKey(rate_limit_strategy, limit, path, method, ip)
           used == UsedLimit(rate_limit_strategy, limit)
           call == [ip |-> ip, path |-> path, method |-> method, limit |-> limit]
       IN  IF Consulted(key, used)
           THEN LET id == InstanceFor(rate_limiters, key)
                IN  /\ rate_limiters' = rate_limiters \cup {[key |-> key, id |-> id]}
                    /\ charged' = Append(charged, [call |-> call, instance |-> id])
           ELSE /\ charged' = Append(charged, [call |-> call, instance |-> 0])
                /\ UNCHANGED rate_limiters
    /\ UNCHANGED <<rate_limit_strategy, rate_limiting_enabled, chain, closing, wire,
                   received, request, status, args, ctx, obs, breaker, now,
                   next_data, backoff_sem, service_vars, worker_vars>>

LimiterInitState ==
    /\ rate_limit_strategy \in Strategies
    /\ rate_limiting_enabled = RateLimitingEnabled(rate_limit_strategy)
    /\ chain = <<>>
    /\ InitCommon
    /\ request_caching_enabled = FALSE
    /\ service = NoService

LimiterNext ==
    \E ip \in Ips, path \in Paths, limit \in RouteLimits :
        LimiterLimit(ip, path, "GET", limit)

LimiterSpec == LimiterInitState /\ [][LimiterNext]_vars

---------------------------------------------------------------------------
\* The Service alone: start, signal and shutdown, in each of the three modes
\* and for every assignment of triggers to the registered tasks.

Modes == {"single", "worker", "parent"}

ServiceInitState ==
    /\ rate_limit_strategy = "none"
    /\ rate_limiting_enabled = RateLimitingEnabled(rate_limit_strategy)
    /\ chain = <<>>
    /\ InitCommon
    /\ request_caching_enabled = FALSE
    /\ service \in {[NoService EXCEPT !.mode = m, !.at = "START", !.trigger = tr] :
                        m \in Modes, tr \in [TaskNames -> Triggers]}

ServiceNext ==
    \/ ServiceRun
    \/ StartTasks
    \/ Abort
    \/ \E w \in Workers : WorkerReturns(w)
    \/ WaitOver
    \/ Close

ServiceSpec == ServiceInitState /\ [][ServiceNext]_vars

\* The event loop runs every task that can run; signals and the fate of the
\* worker processes are the environment's.
ServiceLiveSpec ==
    /\ ServiceSpec
    /\ WF_vars(ServiceRun) /\ WF_vars(StartTasks) /\ WF_vars(WaitOver) /\ WF_vars(Close)

---------------------------------------------------------------------------
\* The receive path: two client connections of one worker, no middleware,
\* no rate limiting, a handler that returns its string.

\* MercurySyncTCPServerProtocol.__init__ and connection_made for a client
\* that will send message m.
ConnectionMade(c, m) ==
    /\ LoopIdle
    /\ ~proto[c].made
    /\ \A d \in 1..MaxConns : d < c => proto[d].made
    /\ proto' = [proto EXCEPT ![c] = [NoProtocol EXCEPT !.made = TRUE, !.message = m,
                                                           !.unsent = m]]
    /\ UNCHANGED <<waiting_for_data, frame, response_headers, middleware>>
    /\ UNCHANGED <<next_data, backoff_sem, limiter_vars, service_vars>>
    /\ UNCHANGED <<rate_limiting_enabled, chain, closing, wire, received, request,
                   status, args, ctx, obs, breaker, now>>

\* MercurySyncTCPServerProtocol.data_received with the next n tokens of the
\* client of connection c: conn.read(...) when waiting_for_data is not set
\* or this protocol's _next_data is done, else _next_data.set_result(...).
SegmentReceived(c, n) ==
    /\ LoopIdle
    /\ proto[c].made
    /\ n \in 1..Len(proto[c].unsent)
    /\ LET p == [proto[c] EXCEPT
                    !.receive_buffer = @ \o SubSeq(proto[c].unsent, 1, n),
                    !.unsent = SubSeq(@, n + 1, Len(@)),
                    !.segments = @ + 1]
       IN  IF ~waiting_for_data \/ proto[c].next_data # "pending"
           THEN \E r \in Reqs :
                   /\ status[r] = "IDLE"
                   /\ \A q \in Reqs : q < r => status[q] # "IDLE"
                   /\ received' = received + 1
                   /\ status' = [status EXCEPT ![r] = "PARSE"]
                   /\ frame' = [frame EXCEPT ![r] = [NoFrame EXCEPT !.conn = c]]
                   /\ obs' = [obs EXCEPT ![r] = [NoObs EXCEPT !.seq = received + 1]]
                   /\ proto' = [proto EXCEPT ![c] = p]
           ELSE /\ proto' = [proto EXCEPT ![c] =
                                [p EXCEPT !.next_data = "result",
                                          !.swallowed =
                                              IF \E r \in Reqs :
                                                     /\ status[r] = "IN_PARSE"
                                                     /\ frame[r].conn = c
                                              THEN @ ELSE @ + 1]]
                /\ UNCHANGED <<received, status, frame, obs>>
    /\ UNCHANGED <<waiting_for_data, request, args, response_headers, middleware>>
    /\ UNCHANGED <<next_data, backoff_sem, limiter_vars, service_vars>>
    /\ UNCHANGED <<rate_limiting_enabled, chain, closing, wire, ctx, breaker, now>>

\* _execute -> _parse on the receive buffer, up to its first wait.
ParseReceived(r) ==
    /\ status[r] = "PARSE"
    /\ frame[r].conn # 0
    /\ LET c == frame[r].conn
           o == ParseOutcome(proto[c].receive_buffer, waiting_for_data,
                             proto[c].next_data)
       IN  /\ Dispatch(r, o.res)
           /\ proto' = [proto EXCEPT ![c].receive_buffer = o.buffer]
           /\ frame' = [frame EXCEPT ![r] = [conn |-> c, kind |-> o.kind,
                                             request_data |-> o.body, at |-> o.at]]
           /\ waiting_for_data' = o.flag
           /\ request' = [request EXCEPT ![r] =
                             IF o.kind # "none" THEN RequestOf(o.kind) ELSE @]
           /\ obs' = [obs EXCEPT ![r].interim = IF o.kind = "expect" THEN @ + 1 ELSE @]
    /\ UNCHANGED <<response_headers, middleware>>
    /\ UNCHANGED <<next_data, backoff_sem, limiter_vars, service_vars>>
    /\ UNCHANGED <<rate_limiting_enabled, chain, closing, wire, received, ctx,
                   breaker, now>>

\* The pass resumes in _parse: its connection's _next_data has a result.
ResumeReceived(r) ==
    /\ LoopIdle
    /\ status[r] = "IN_PARSE"
    /\ frame[r].conn # 0
    /\ proto[frame[r].conn].next_data = "result"
    /\ LET c == frame[r].conn
           o == Resumed(frame[r].kind, proto[c].receive_buffer,
                        frame[r].request_data, frame[r].at)
       IN  /\ Dispatch(r, o.res)
           /\ proto' = [proto EXCEPT ![c].receive_buffer = o.buffer]
           /\ frame' = [frame EXCEPT ![r] = [conn |-> c, kind |-> o.kind,
                                             request_data |-> o.body, at |-> o.at]]
           /\ waiting_for_data' = o.flag
    /\ UNCHANGED <<request, obs, response_headers, middleware>>
    /\ UNCHANGED <<next_data, backoff_sem, limiter_vars, service_vars>>
    /\ UNCHANGED <<rate_limiting_enabled, chain, closing, wire, received, ctx,
                   breaker, now>>

\* wait_for expires: it cancels _next_data and raises TimeoutError, which
\* the except of _parse turns into the 408 tuple.
TimeoutReceived(r) ==
    /\ LoopIdle
    /\ status[r] = "IN_PARSE"
    /\ frame[r].conn # 0
    /\ proto[frame[r].conn].next_data = "pending"
    /\ Dispatch(r, TimeoutResult(RequestOf(frame[r].kind)))
    /\ proto' = [proto EXCEPT ![frame[r].conn].next_data = "cancelled"]
    /\ frame' = [frame EXCEPT ![r].at = "none"]
    /\ UNCHANGED <<waiting_for_data, request, obs, response_headers, middleware>>
    /\ UNCHANGED <<next_data, backoff_sem, limiter_vars, service_vars>>
    /\ UNCHANGED <<rate_limiting_enabled, chain, closing, wire, received, ctx,
                   breaker, now>>

ReceiveInitState ==
    /\ rate_limit_strategy = "none"
    /\ rate_limiting_enabled = RateLimitingEnabled(rate_limit_strategy)
    /\ chain = <<>>
    /\ InitCommon
    /\ request_caching_enabled = FALSE
    /\ service = NoService

ReceiveNext ==
    \/ \E c \in 1..MaxConns, m \in Messages : ConnectionMade(c, m)
    \/ \E c \in 1..MaxConns, n \in 1..MaxSegment : SegmentReceived(c, n)
    \/ \E r \in Reqs : ParseReceived(r)
    \/ \E r \in Reqs : ResumeReceived(r)
    \/ \E r \in Reqs : TimeoutReceived(r)
    \/ \E r \in Reqs : Route(r)
    \/ \E r \in Reqs : HandleCall(r)
    \/ \E r \in Reqs : HandleReturn(r) /\ obs'[r].hout = "ok"
    \/ \E r \in Reqs : CompleteRequest(r)
    \/ \E r \in Reqs : HandleError(r)
    \/ \E r \in Reqs : ExecuteExcept(r)

ReceiveSpec == ReceiveInitState /\ [][ReceiveNext]_vars

---------------------------------------------------------------------------
\* One CircuitBreaker instance in the middleware of a service and of its
\* groups: the wrappers made from it, and the calls it makes.

\* Middleware.wrap(handler) while the routes are assembled: the wrapper
\* notes whether its handler is another wrapper (CallWrapper.__init__:
\* self.wraps = isinstance(handler, BaseWrapper)), and the instance takes
\* the wrapper's value over: self.wraps = wrapper.wraps.
MiddlewareWrap(is_wrapper) ==
    /\ Len(middleware.wrappers) < MaxRoutes
    /\ middleware.calls = <<>>
    /\ middleware' = [middleware EXCEPT !.wraps = is_wrapper,
                                        !.wrappers = Append(@, is_wrapper)]
    /\ UNCHANGED <<waiting_for_data, proto, frame, response_headers>>
    /\ UNCHANGED <<next_data, backoff_sem, limiter_vars, service_vars>>
    /\ UNCHANGED <<rate_limiting_enabled, chain, closing, wire, received, request,
                   status, args, ctx, obs, breaker, now>>

\* CallWrapper.__call__ of wrapper i -> CircuitBreaker.__run__ with an
\* admitted request: "if self.wraps" chooses handler(context=, response=)
\* or handler(*context.args, **context.kwargs).
BreakerRun(i) ==
    /\ i \in 1..Len(middleware.wrappers)
    /\ Len(middleware.calls) < MaxRuns
    /\ middleware' = [middleware EXCEPT
                         !.calls = Append(@, [wrapper |-> i,
                                              as_wrapper |-> middleware.wraps])]
    /\ UNCHANGED <<waiting_for_data, proto, frame, response_headers>>
    /\ UNCHANGED <<next_data, backoff_sem, limiter_vars, service_vars>>
    /\ UNCHANGED <<rate_limiting_enabled, chain, closing, wire, received, request,
                   status, args, ctx, obs, breaker, now>>

WrapNext ==
    \/ \E is_wrapper \in BOOLEAN : MiddlewareWrap(is_wrapper)
    \/ \E i \in 1..MaxRoutes : BreakerRun(i)

WrapSpec == BreakerInitState /\ [][WrapNext]_vars

---------------------------------------------------------------------------
\* Properties of the request pipeline (specification Spec).

\* C1: when a request pass has ended, it has either written exactly one
\* final response and closed nothing, or closed the connection exactly once
\* and written nothing.
ExactlyOneResponseOrClose ==
    \A r \in Reqs :
        Ended(r) => \/ obs[r].writes = 1 /\ obs[r].closes = 0
                    \/ obs[r].writes = 0 /\ obs[r].closes = 1

\* C1: a pass ended through a failure inside _complete_request, on an open
\* transport, with nothing written and nothing closed.
CompleteFailureLeavesNothing ==
    \E r \in Reqs :
        /\ Ended(r) /\ obs[r].lost /\ ~closing
        /\ obs[r].writes = 0 /\ obs[r].closes = 0

\* C2: a request the rate limiter rejected has had neither its route handler
\* nor any middleware run(...) invoked, at any later point of the pass.
RejectedRunsNothing ==
    \A r \in Reqs :
        obs[r].limited = "rejected" => obs[r].handler = 0 /\ obs[r].runs = 0

\* C2: a rejected request whose pass went through the abort path to its end,
\* on a route that has middleware.
RejectedPassEnded ==
    \E r \in Reqs :
        /\ obs[r].limited = "rejected" /\ Ended(r)
        /\ chain # <<>>
        /\ "ABORTED" = obs[r].hist[Len(obs[r].hist) - 1]

\* C4: with rate limiting enabled, an accepted request goes from RATE_LIMIT
\* to MIDDLEWARE when the route has middleware and to HANDLE otherwise; unless
\* a middleware stopped it the route handler has been invoked exactly once
\* when the pass ends; and when the handler returned normally and no
\* middleware reported an error, the pass ended in COMPLETE with one 2xx
\* response written.
AcceptedReachesHandler ==
    \A r \in Reqs :
        (rate_limiting_enabled /\ obs[r].limited = "accepted" /\ Ended(r)) =>
            /\ Len(obs[r].hist) >= 3
            /\ obs[r].hist[2] = "RATE_LIMIT"
            /\ obs[r].hist[3] = (IF chain # <<>> THEN "MIDDLEWARE" ELSE "HANDLE")
            /\ (~obs[r].halted => obs[r].handler = 1)
            /\ (obs[r].hout = "ok" /\ ctx[r].errors = <<>> =>
                    /\ Last(obs[r].hist) = "COMPLETE"
                    /\ obs[r].writes = 1
                    /\ obs[r].code \in 200..299)

\* C4: an accepted request of a route without middleware ended without its
\* handler ever being invoked.
AcceptedNeverHandled ==
    \E r \in Reqs :
        /\ rate_limiting_enabled /\ obs[r].limited = "accepted" /\ Ended(r)
        /\ chain = <<>>
        /\ obs[r].handler = 0

\* C5: right after _route, a target matching no registered path has status
\* 404, and a target whose path matches a registered route but whose method
\* is not registered for it has status 405.
RouteStatus404Or405 ==
    \A r \in Reqs :
        obs[r].hist = <<"ROUTE">> =>
            LET rq == request[r]
                t == TrieMatch(rq.target)
            IN  /\ (t = NoRoute => status[r] = "ERROR" /\ args[r].code = 404)
                /\ (t # NoRoute /\ rq.method \notin RouteMethods(t) =>
                        status[r] = "ERROR" /\ args[r].code = 405)

\* C5: a request for a registered path with an unregistered method was
\* answered 404.
UnregisteredMethodGets404 ==
    \E r \in Reqs :
        /\ Ended(r) /\ obs[r].writes = 1 /\ obs[r].code = 404
        /\ TrieMatch(request[r].target) # NoRoute

\* C6: when the run(...) of some Unidirectional-before wrapper of the chain
\* returned continue? = false, the route handler has not been invoked.
BeforeHaltSkipsHandler ==
    \A r \in Reqs : obs[r].halted => obs[r].handler = 0

\* C6: the wrapper that directly wraps the raw route handler returned
\* continue? = false and the handler was invoked all the same.
InnermostHaltStillHandles ==
    \E r \in Reqs :
        /\ Len(chain) = 1 /\ obs[r].halted /\ obs[r].handler = 1
        /\ status[r] = "IN_MW_HANDLER"

\* C7: the responses on the transport are in the order in which their
\* requests were received.
ResponsesInRequestOrder ==
    \A i, j \in 1..Len(wire) : i < j => wire[i].req < wire[j].req

\* C7: the later request's handler finished first and its response was
\* written while the earlier request was still in its handler.
LaterAnsweredFirst ==
    \E r, q \in Reqs :
        /\ obs[r].seq < obs[q].seq /\ obs[r].seq > 0
        /\ status[r] \in {"IN_HANDLER", "IN_MW_HANDLER"}
        /\ Ended(q) /\ obs[q].writes = 1 /\ obs[q].hout = "ok"

\* C9: once the middleware chain of a request has returned, a non-empty
\* context.errors sends the request to ERROR with status context.status (500
\* when unset) and the accumulated errors in order, and the request goes to
\* COMPLETE only with an empty error list.
ErrorsEndInError ==
    \A r \in Reqs :
        (/\ status[r] \in {"ERROR", "COMPLETE"}
         /\ obs[r].hist # <<>> /\ Last(obs[r].hist) = "MIDDLEWARE"
         /\ obs[r].hout # "raise") =>
            /\ (ctx[r].errors # <<>> =>
                    /\ status[r] = "ERROR"
                    /\ args[r].code = (IF ctx[r].status # NoStatus
                                       THEN ctx[r].status ELSE 500)
                    /\ args[r].errors = ctx[r].errors)
            /\ (status[r] = "COMPLETE" => ctx[r].errors = <<>>)

\* C9: the chain returned with errors on a closing transport and a success
\* response was written.
ErrorsAnsweredWithSuccess ==
    \E r \in Reqs :
        /\ Ended(r) /\ ctx[r].errors # <<>> /\ obs[r].hout # "raise"
        /\ Last(obs[r].hist) = "COMPLETE" /\ obs[r].writes = 1 /\ obs[r].code = 200

---------------------------------------------------------------------------
\* Properties of the circuit breaker (specifications BreakerSpec, LimitedSpec).

\* C3: a request that entered the breaker while it was OPEN, less than
\* failure_window after the trip, has context status 503, has not had the
\* wrapped handler invoked, and when its pass has ended exactly one response
\* with status 503 has been written for it.
OpenBreakerAnswers503 ==
    \A r \in Reqs :
        obs[r].openEntry =>
            /\ ctx[r].status = 503
            /\ obs[r].handler = 0
            /\ (Ended(r) => obs[r].writes = 1 /\ obs[r].code = 503)

\* C3: a request rejected by the OPEN breaker on a transport the peer had
\* closed was answered with a success response.
OpenRejectAnswered200 ==
    \E r \in Reqs :
        /\ obs[r].openEntry /\ Ended(r) /\ closing
        /\ obs[r].writes = 1 /\ obs[r].code = 200

StepLegal(e) ==
    \/ e.to = "OPEN" /\ e.from \in {"CLOSED", "HALF_OPEN"}
    \/ e.to = "HALF_OPEN" /\ e.from = "OPEN" /\ e.since >= FailureWindow
    \/ e.to = "CLOSED" /\ e.from = "HALF_OPEN" /\ e.since >= FailureWindow

\* C8: every change of the breaker state is CLOSED->OPEN or HALF_OPEN->OPEN,
\* or OPEN->HALF_OPEN at least failure_window after the trip, or
\* HALF_OPEN->CLOSED at least failure_window after HALF_OPEN was entered;
\* this holds of each assignment made inside one run of __run__ and of the
\* state seen from one step of the system to the next.
BreakerTransitionsLegal ==
    [][/\ \A i \in 1..Len(breaker'.steps) : StepLegal(breaker'.steps[i])
       /\ (breaker'.state # breaker.state =>
            \/ breaker'.state = "OPEN" /\ breaker.state \in {"CLOSED", "HALF_OPEN"}
            \/ /\ breaker.state = "OPEN" /\ breaker'.state = "HALF_OPEN"
               /\ now - breaker.closed_window_start >= FailureWindow
            \/ /\ breaker.state = "HALF_OPEN" /\ breaker'.state = "CLOSED"
               /\ now - breaker.half_open_window_start >= FailureWindow)]_vars

\* C8: the breaker has gone all the way round: it tripped, half-opened and
\* has just closed again.
BreakerClosedAgain ==
    /\ breaker.state = "CLOSED"
    /\ breaker.closed_window_start # NoTime
    /\ \E i \in 1..Len(breaker.steps) : breaker.steps[i].to = "CLOSED"

\* C10: a request whose wrapped handler ran into handler_timeout has context
\* status 503, was counted as a failure, and when its pass has ended exactly
\* one response with status 503 has been written for it.
TimeoutAnswers503 ==
    \A r \in Reqs :
        obs[r].hout = "timeout" =>
            /\ ctx[r].status = 503
            /\ obs[r].counted = "failed"
            /\ (Ended(r) => obs[r].writes = 1 /\ obs[r].code = 503)

\* C10: a request whose handler timed out, counted as a failure, was
\* answered 200 on an open transport.
TimeoutAnswered200 ==
    \E r \in Reqs :
        /\ obs[r].hout = "timeout" /\ obs[r].counted = "failed" /\ Ended(r)
        /\ ~closing /\ obs[r].writes = 1 /\ obs[r].code = 200

\* C11: a request the breaker rejected leaves total_completed, succeeded and
\* failed as they were; a request whose handler was invoked adds one to
\* total_completed and one to failed when its status is >= 400 (the 503 of
\* a timeout included), one to succeeded otherwise.
EachHandledRequestCountedOnce ==
    \A r \in Reqs :
        /\ (obs[r].runs > 0 /\ obs[r].handler = 0 /\ status[r] # "MIDDLEWARE")
               => obs[r].counted = "none"
        /\ obs[r].hout # "none"
               => obs[r].counted = IF ctx[r].status >= 400 THEN "failed"
                                   ELSE "succeeded"

RaisingHandlerNotCounted ==
    \E r \in Reqs : obs[r].hout = "raise" /\ obs[r].counted = "none"

CountsConsistent(b) ==
    /\ b.total_completed >= b.succeeded + b.failed
    /\ b.previous_count >= b.previous_count_succeeded + b.previous_count_failed

RejectionAnswered429 ==
    \A r \in Reqs :
        (Ended(r) /\ obs[r].limited = "rejected")
            => IF obs[r].rejectedOpen
               THEN obs[r].writes = 1 /\ obs[r].code = 429
               ELSE obs[r].writes = 0

RejectionLeftUnanswered ==
    \E r \in Reqs : Ended(r) /\ obs[r].rejectedOpen /\ obs[r].writes = 0

NoLengthMethods == {"POST", "PUT", "PATCH"}

\* C14: a POST, PUT or PATCH request that carries neither Content-Length nor
\* Transfer-Encoding ends in ERROR with status 400 and never reaches ROUTE.
BodyWithoutLengthIs400 ==
    \A r \in Reqs :
        (/\ request[r].wellformed
         /\ request[r].method \in NoLengthMethods
         /\ ~request[r].has_length
         /\ status[r] \notin {"PARSE", "IN_PARSE"})
            => /\ \A i \in 1..Len(obs[r].hist) : obs[r].hist[i] # "ROUTE"
               /\ args[r].code = 400
               /\ status[r] = "ERROR" \/ (obs[r].hist # <<>> /\ obs[r].hist[1] = "ERROR")

BodyWithoutLengthDropped ==
    \E r \in Reqs :
        /\ request[r].method \in NoLengthMethods
        /\ ~request[r].has_length
        /\ status[r] = "CRASHED"
        /\ obs[r].hist = <<>>
        /\ obs[r].writes = 0

\* C15: a request with no Host header, in any letter case, ends in ERROR with
\* status 400 and never reaches ROUTE.
MissingHostIs400 ==
    \A r \in Reqs :
        (/\ request[r].wellformed
         /\ request[r].host = "none"
         /\ status[r] \notin {"PARSE", "IN_PARSE"})
            => /\ status[r] # "ROUTE"
               /\ \A i \in 1..Len(obs[r].hist) : obs[r].hist[i] # "ROUTE"
               /\ args[r].code = 400
               /\ status[r] = "ERROR" \/ (obs[r].hist # <<>> /\ obs[r].hist[1] = "ERROR")

MissingHostAnswered200 ==
    \E r \in Reqs :
        /\ request[r].host = "none"
        /\ obs[r].hist # <<>>
        /\ obs[r].hist[1] = "ROUTE"
        /\ obs[r].writes = 1
        /\ obs[r].code = 200

\* C16: no response bytes are written to a transport that is closing: the
\* COMPLETE path, the ERROR path and the interim 100 Continue all check
\* first and write nothing once the transport is closing.
NoWriteWhileClosing ==
    [][closing => /\ wire' = wire
                  /\ \A r \in Reqs : obs'[r].interim = obs[r].interim]_vars

Waiting == {"WAIT_ERROR", "WAIT_EXCEPT"}

InSection == {r \in Reqs : status[r] \in {"IN_ERROR", "IN_EXCEPT"}}

\* C17: at most rate_limiting_backoff_rate passes are inside the reply
\* section of _handle_error or _abort_request at once, later ones wait for a
\* free slot, and every slot taken is given back, also when building or
\* writing the reply raises: the free slots are always the slots not held.
BackoffSlotsBounded ==
    [][/\ Cardinality(InSection) <= BackoffRate
       /\ backoff_sem = BackoffRate - Cardinality(InSection)
       /\ Cardinality(InSection') <= BackoffRate
       /\ backoff_sem' = BackoffRate - Cardinality(InSection')
       /\ \A r \in Reqs :
              /\ (status[r] \notin Waiting /\ status'[r] \in Waiting)
                     => backoff_sem = 0
              /\ (r \notin InSection /\ r \in InSection')
                     => backoff_sem > 0]_vars

BackoffSlotContended ==
    \E r, q \in Reqs :
        /\ status[r] = "IN_EXCEPT"
        /\ Len(obs[r].hist) >= 2
        /\ obs[r].hist[Len(obs[r].hist) - 1] = "ERROR"
        /\ status[q] \in Waiting

\* C18: when the connection is lost or closed, every request task in flight
\* for it is cancelled: from then on no handler started for the connection
\* runs on to completion and no response is written.
LostConnectionCancelsTasks ==
    [][closing => \A r \in Reqs : /\ obs'[r].hout = obs[r].hout
                                   /\ obs'[r].writes = obs[r].writes]_vars

Counted == {i \in 1..Len(charged) : charged[i].instance # 0}

\* The limit key by strategy alone; the custom key function is the key of
\* the custom strategy.
StrategyKey(c) ==
    IF rate_limit_strategy = "ip" THEN <<"addr", c.ip>>
    ELSE IF rate_limit_strategy = "endpoint" THEN <<"str", c.path>>
    ELSE IF rate_limit_strategy = "global" THEN DefaultKey
    ELSE IF rate_limit_strategy = "ip-endpoint" THEN <<"pair", c.path, c.ip>>
    ELSE IF c.limit.limit_key = None THEN DefaultKey
    ELSE KeyFunction(c.limit.limit_key, c.path, c.method, c.ip)

\* The limit key with the route's own key function, where the route declares
\* one, taking the place of the strategy's key under every strategy but
\* global, and with the string "{path}_{ip}" for the pair of ip-endpoint.
RouteOrStrategyKey(c) ==
    IF rate_limit_strategy # "global" /\ c.limit.limit_key # None
    THEN KeyFunction(c.limit.limit_key, c.path, c.method, c.ip)
    ELSE IF rate_limit_strategy = "ip-endpoint"
    THEN <<"str", c.path \o <<"_">> \o c.ip>>
    ELSE StrategyKey(c)

\* C19 as stated: two requests are counted against the same limiter instance
\* exactly when their limit keys are equal, the key being the client IP for
\* the ip strategy, the path for endpoint, one constant for global, the pair
\* (path, ip) for ip-endpoint, or the value of a custom key function.
SameInstanceIffSameStrategyKey ==
    \A i, j \in Counted :
        charged[i].instance = charged[j].instance
            <=> StrategyKey(charged[i].call) = StrategyKey(charged[j].call)

\* C19, amended: among the requests the limiter counts (non-empty key, rules
\* matching), two are counted against the same instance exactly when their
\* keys are equal, the key being the value of the route's key function where
\* the route declares one and the strategy is not global, else the
\* strategy's key (the string "{path}_{ip}" for ip-endpoint, one constant for
\* custom); each key has one instance, created by its first request and reused.
SameInstanceIffSameKey ==
    /\ \A i, j \in Counted :
           charged[i].instance = charged[j].instance
               <=> RouteOrStrategyKey(charged[i].call) = RouteOrStrategyKey(charged[j].call)
    /\ \A e, f \in rate_limiters : e.key = f.key <=> e.id = f.id
    /\ \A i \in Counted : \E e \in rate_limiters : e.id = charged[i].instance

LimiterInstanceReused ==
    \E i, j, k \in Counted :
        /\ i < j /\ j < k
        /\ charged[i].instance = charged[k].instance
        /\ charged[i].instance # charged[j].instance
        /\ charged[i].call.limit # charged[k].call.limit
        /\ Cardinality(rate_limiters) = 2

\* C20: after a successful ROUTE the next stage is RATE_LIMIT exactly when
\* the rate limit strategy is not "none", otherwise MIDDLEWARE exactly when
\* the route has middleware, otherwise HANDLE; with the strategy "none" no
\* limiter is consulted for any request.
RouteLeadsByStrategy ==
    [][/\ \A r \in Reqs :
              (status[r] = "ROUTE" /\ status'[r] \notin {"ROUTE", "ERROR", "RAISED"})
                  => status'[r] = IF rate_limit_strategy # "none" THEN "RATE_LIMIT"
                                  ELSE IF MiddlewareEnabled(args'[r].key)
                                  THEN "MIDDLEWARE" ELSE "HANDLE"
       /\ rate_limit_strategy = "none"
              => /\ charged' = <<>> /\ rate_limiters' = {}
                 /\ \A r \in Reqs : /\ status'[r] \notin {"RATE_LIMIT", "IN_LIMITER"}
                                     /\ obs'[r].limited = "none"]_vars

RateLimitBeforeMiddleware ==
    \E r, q \in Reqs :
        /\ obs[r].hist = <<"ROUTE">>
        /\ status[r] = "RATE_LIMIT"
        /\ MiddlewareEnabled(args[r].key)
        /\ obs[q].limited = "accepted"

ParseFailureAnswered400Or408 ==
    \A r \in Reqs :
        (/\ Ended(r) /\ ~closing
         /\ \A i \in 1..Len(obs[r].hist) : obs[r].hist[i] # "ROUTE")
            => /\ obs[r].hist # <<>> /\ obs[r].hist[1] = "ERROR"
               /\ obs[r].writes = 1
               /\ obs[r].code \in {400, 408}
               /\ (obs[r].code = 408 => obs[r].interim > 0)

\* C22: a request whose request line is illegal ended on an open connection
\* with ERROR entered and nothing written.
IllegalRequestLineUnanswered ==
    \E r \in Reqs :
        /\ Ended(r) /\ ~closing
        /\ ~request[r].wellformed
        /\ obs[r].hist # <<>> /\ obs[r].hist[1] = "ERROR"
        /\ obs[r].writes = 0

\* C23: a well-formed request that fails the validation of an input its route
\* declares goes from ROUTE to ERROR and is answered 422 on an open
\* connection, and the route handler is not invoked.
ValidationFailureAnswered422 ==
    \A r \in Reqs :
        (/\ request[r].wellformed /\ ~request[r].valid
         /\ Ended(r) /\ ~closing)
            => /\ Len(obs[r].hist) = 2
               /\ obs[r].hist[1] = "ROUTE" /\ obs[r].hist[2] = "ERROR"
               /\ obs[r].writes = 1 /\ obs[r].code = 422
               /\ obs[r].handler = 0

\* C23: a request with an invalid query for a route that declares a Query
\* model ended on an open connection with no ERROR stage and no response.
InvalidInputUnanswered ==
    \E r \in Reqs :
        /\ request[r].wellformed /\ ~request[r].valid
        /\ Ended(r) /\ ~closing
        /\ obs[r].hist # <<>> /\ obs[r].hist[1] = "ROUTE"
        /\ \A i \in 1..Len(obs[r].hist) : obs[r].hist[i] # "ERROR"
        /\ obs[r].writes = 0

\* C24: once SIGINT or SIGTERM was delivered to a running server, run()
\* eventually returns with the TCP server closed and the waiter resolved.
SignalledServerShutsDown ==
    service.signalled ~> (service.at = "RETURNED" /\ service.tcp = "closed")

\* C24: the parent of a worker pool was signalled and still awaits its
\* workers, none of which the signal handler has touched.
ParentSignalledStillGathering ==
    /\ service.mode = "parent" /\ service.signalled /\ service.at = "GATHER"
    /\ \A w \in Workers : service.pool[w] = "running"

\* C25: once start_tasks has run, every ON_START task has been launched
\* exactly once and no other task has been launched.
OnStartTasksLaunchedOnce ==
    (service.mode # "parent" /\ service.at \notin {"IDLE", "START", "CONNECTED"})
        => \A t \in TaskNames :
              service.launched[t] = IF service.trigger[t] = "ON_START" THEN 1 ELSE 0

\* C25: start_tasks ran with an ON_START task registered and started nothing.
OnStartTaskNotLaunched ==
    /\ service.at \in {"RAISED", "RETURNED"}
    /\ \E t \in TaskNames : service.trigger[t] = "ON_START" /\ service.launched[t] = 0

\* C26: with request caching enabled and the socket open, a request whose
\* bytes equal those of a request answered before it arrived runs none of
\* ROUTE, RATE_LIMIT, MIDDLEWARE and HANDLE, and what is written for it is
\* the earlier response.
RepeatedRequestServedFromCache ==
    \A r \in Reqs :
        (request_caching_enabled /\ obs[r].repeat /\ ~closing)
            => /\ \A i \in 1..Len(obs[r].hist) :
                     obs[r].hist[i] \notin {"ROUTE", "RATE_LIMIT", "MIDDLEWARE", "HANDLE"}
               /\ obs[r].handler = 0
               /\ (Ended(r) => obs[r].writes = 1 /\ obs[r].code = 200)

\* C26: a repeated request had its route handler invoked again, with the
\* cache still empty.
RepeatedRequestHandledAgain ==
    \E r \in Reqs :
        /\ request_caching_enabled /\ obs[r].repeat /\ ~closing
        /\ obs[r].handler = 1 /\ cache = {}

ErrorStatuses == {400, 404, 405, 408, 422, 429, 500, 503}

\* C27: every error response written, whichever stage produced it, carries
\* content-type: application/json.
ErrorResponsesAreJson ==
    \A r \in Reqs :
        (obs[r].writes >= 1 /\ obs[r].code \in ErrorStatuses)
            => obs[r].ctype = "application/json"

\* C27: a 404 was written by _handle_error with the headers of the request
\* and no content-type.
NotFoundWithoutContentType ==
    \E r \in Reqs :
        /\ obs[r].writes = 1 /\ obs[r].code = 404
        /\ obs[r].hist = <<"ROUTE", "ERROR">>
        /\ obs[r].ctype = "none"

\* The ERROR stage of pass r raised: building or writing its response failed.
ErrorWriteFailed(r) ==
    \E i \in 1..Len(obs[r].hist) :
        /\ obs[r].hist[i] = "ERROR"
        /\ (i < Len(obs[r].hist) \/ status[r] \in {"RAISED", "CRASHED"})

\* C28: a pass whose error write failed ends with the connection closed,
\* nothing written, no second _handle_error call and no exception leaving
\* the request task.
FailedErrorWriteClosesSilently ==
    \A r \in Reqs :
        (ErrorWriteFailed(r) /\ Ended(r))
            => /\ closing
               /\ obs[r].writes = 0
               /\ \A i \in 1..Len(obs[r].hist) : obs[r].hist[i] # "EXCEPT"
               /\ status[r] # "CRASHED"

\* C28: the error write of a pass failed, _handle_error was called a second
\* time from the except of _execute, the exception left the task and the
\* connection is still open.
FailedErrorWriteRetriedAndEscaped ==
    \E r \in Reqs :
        /\ ErrorWriteFailed(r)
        /\ Last(obs[r].hist) = "EXCEPT"
        /\ status[r] = "CRASHED"
        /\ ~closing /\ obs[r].closes = 0

\* Pass r wrote the response of a route without response model or status
\* from _complete_request.
PlainRouteAnswered(r) ==
    /\ obs[r].hist # <<>> /\ Last(obs[r].hist) = "COMPLETE"
    /\ obs[r].writes = 1 /\ ~obs[r].lost
    /\ args[r].key # NoKey /\ ~HasParser(args[r].key[2])

\* C29: the response of a route whose handler declares no response model
\* or status has status 200 and the content-type of the route, whether the
\* pass went through HANDLE or through MIDDLEWARE.
PlainRouteAnswered200 ==
    \A r \in Reqs :
        PlainRouteAnswered(r)
            => /\ obs[r].code = 200
               /\ obs[r].ctype = GetContentType(args[r].key[2])

\* C29: on the HANDLE path the response of such a route was written with
\* status None.
PlainRouteAnsweredWithoutStatus ==
    \E r \in Reqs :
        /\ PlainRouteAnswered(r)
        /\ obs[r].hist = <<"ROUTE", "HANDLE", "COMPLETE">>
        /\ obs[r].code = NoStatus
        /\ obs[r].ctype = "text/plain"

\* HTTPSRedirect.__run__ redirected the request of pass r.
Redirected(r) == ctx[r].status = 307 /\ obs[r].halted

\* C30: a request the HTTPS-redirect middleware redirected is answered with
\* status 307 and its route handler is not invoked.
RedirectAnswered307 ==
    \A r \in Reqs :
        (Redirected(r) /\ Ended(r))
            => /\ obs[r].handler = 0
               /\ (obs[r].writes >= 1 => obs[r].code = 307)

\* C30: a redirected request whose middleware is the wrapper next to the
\* route handler had its handler invoked and was answered 200.
RedirectedRequestHandled ==
    \E r \in Reqs :
        /\ Redirected(r) /\ Ended(r)
        /\ chain = <<"before">>
        /\ obs[r].handler = 1
        /\ obs[r].writes = 1 /\ obs[r].code = 200

---------------------------------------------------------------------------
\* Properties of the receive path (specification ReceiveSpec).

\* C31: every segment that arrives on a connection either starts a request
\* pass on that connection or reaches a pass of that connection that is
\* suspended awaiting body bytes; none is swallowed because a pass of
\* another connection awaits data.
SegmentsStartOrResumeAPass ==
    \A c \in 1..MaxConns : proto[c].swallowed = 0

\* C31: a segment of one connection resolved that connection's _next_data
\* while only a pass of another connection awaited data; no pass was
\* started for it.
SegmentSwallowedForOtherConnection ==
    \E c, d \in 1..MaxConns, r \in Reqs :
        /\ c # d
        /\ status[r] = "IN_PARSE" /\ frame[r].conn = d
        /\ proto[c].swallowed = 1 /\ proto[c].segments = 1
        /\ proto[c].next_data = "result"
        /\ \A q \in Reqs : frame[q].conn # c

\* C32: waiting_for_data is set exactly while some request pass is suspended
\* awaiting body bytes; it is cleared when the wait ends, also when the wait
\* ends by a timeout or an error.
WaitingForDataIffPassSuspended ==
    waiting_for_data <=> \E r \in Reqs : status[r] = "IN_PARSE"

\* C32: the wait of a pass ended by a timeout, the pass was answered 408 and
\* ended, no pass is suspended, and waiting_for_data is still set.
WaitingForDataLeftSetByTimeout ==
    /\ waiting_for_data
    /\ \A r \in Reqs : status[r] # "IN_PARSE"
    /\ \E r \in Reqs :
           /\ Ended(r) /\ frame[r].kind = "expect"
           /\ obs[r].writes = 1 /\ obs[r].code = 408
           /\ proto[frame[r].conn].next_data = "cancelled"

\* C34: a request with Content-Length n is handed to ROUTE with a body of
\* exactly n bytes (one more is tolerated), _parse waiting for the rest when
\* fewer have arrived, and the bytes of the body are not parsed as a further
\* request: the connection has one pass.
ContentLengthBodyComplete ==
    \A r \in Reqs :
        (frame[r].kind = "len" /\ status[r] \notin {"PARSE", "IN_PARSE"})
            => /\ Len(frame[r].request_data) \in {BodyLen, BodyLen + 1}
               /\ \A q \in Reqs : frame[q].conn = frame[r].conn => q = r

\* C34: a request with Content-Length 2 was routed and answered with one
\* byte of body, and the second byte, which arrived later, started a
\* further pass on the connection.
ShortBodyRoutedRestParsedAsRequest ==
    \E r, q \in Reqs :
        /\ r # q /\ frame[r].conn = frame[q].conn
        /\ frame[r].kind = "len" /\ Ended(r) /\ obs[r].writes = 1
        /\ Len(frame[r].request_data) = 1
        /\ frame[q].kind = "none" /\ Ended(q)
        /\ proto[frame[r].conn].segments = 2

\* C35: a chunked request that arrives whole in one segment is handed to
\* ROUTE with the concatenation of its chunks' data as body: one chunk,
\* several chunks, or the zero-size chunk alone (an empty body), without an
\* error.
ChunkedBodyIsConcatenation ==
    \A r \in Reqs :
        LET c == frame[r].conn
            IsData(tok) == tok.t = "data"
        IN  (/\ c # 0 /\ status[r] # "PARSE"
             /\ proto[c].message[1].k = "chunked"
             /\ proto[c].segments = 1 /\ proto[c].unsent = <<>>)
                => /\ frame[r].request_data = SelectSeq(proto[c].message, IsData)
                   /\ \/ status[r] = "ROUTE"
                      \/ obs[r].hist # <<>> /\ obs[r].hist[1] = "ROUTE"

\* C35: a request whose two chunks and terminating chunk arrived in one
\* segment was answered 400, and so was one whose body is the zero-size
\* chunk alone.
ChunkedBodiesRejected ==
    \E r, q \in Reqs :
        /\ frame[r].conn # 0 /\ frame[q].conn # 0
        /\ Len(proto[frame[r].conn].message) = 10
        /\ Len(proto[frame[q].conn].message) = 4
        /\ proto[frame[q].conn].message[1].k = "chunked"
        /\ proto[frame[r].conn].segments = 1 /\ proto[frame[q].conn].segments = 1
        /\ Ended(r) /\ obs[r].writes = 1 /\ obs[r].code = 400
        /\ Ended(q) /\ obs[q].writes = 1 /\ obs[q].code = 400

\* C36: a GET whose request line and header block arrive split over several
\* segments is not answered while the block is incomplete, and is answered
\* exactly once when the block is complete and the passes of its connection
\* have ended.
SplitHeadersAnsweredOnce ==
    \A c \in 1..MaxConns :
        LET answers == {i \in 1..Len(wire) :
                           \E r \in Reqs : /\ frame[r].conn = c
                                           /\ obs[r].seq = wire[i].req}
        IN  /\ (\E i \in 1..Len(proto[c].unsent) : proto[c].unsent[i].t = "H2")
                   => answers = {}
            /\ (/\ proto[c].made /\ proto[c].unsent = <<>>
                /\ proto[c].message[1].k = "get"
                /\ \A r \in Reqs : frame[r].conn = c => Ended(r)
                /\ \A r \in Reqs : status[r] \in {"IDLE"} \cup Terminal)
                   => Cardinality(answers) = 1

\* C36: the second half of a GET's header block completed the request while
\* a pass of another connection awaited data; every pass has ended and the
\* GET was not answered.
CompletedHeadersNeverAnswered ==
    \E c \in 1..MaxConns :
        /\ proto[c].message = <<Tok("H1", "get", 0), Tok("H2", "get", 0)>>
        /\ proto[c].unsent = <<>> /\ proto[c].segments = 2
        /\ proto[c].swallowed = 1
        /\ \A r \in Reqs : status[r] \in {"IDLE"} \cup Terminal
        /\ \A i \in 1..Len(wire) :
               \A r \in Reqs : frame[r].conn = c => obs[r].seq # wire[i].req

---------------------------------------------------------------------------
\* Further properties of the circuit breaker (specification BreakerSpec).

\* C33: a request that enters the breaker when it is OPEN and at least
\* failure_window has passed since the trip is not rejected for the breaker
\* being OPEN: its run moves the breaker from OPEN to HALF_OPEN.
RequestAfterWindowHalfOpens ==
    [][\A r \in Reqs :
          (/\ status[r] = "MIDDLEWARE" /\ status'[r] # "MIDDLEWARE"
           /\ args[r].n = MiddlewareArity
           /\ breaker.state = "OPEN"
           /\ now - breaker.closed_window_start >= FailureWindow)
              => \E i \in 1..Len(breaker'.steps) :
                     /\ breaker'.steps[i].from = "OPEN"
                     /\ breaker'.steps[i].to = "HALF_OPEN"]_vars

\* C33: a request entered the breaker failure_window or more after the
\* trip, was rejected with 503 without its handler being called, and the
\* breaker is still OPEN.
RequestAfterWindowRejected ==
    \E r \in Reqs :
        /\ status[r] = "ERROR" /\ ctx[r].status = 503
        /\ obs[r].runs = 1 /\ obs[r].handler = 0 /\ ~obs[r].openEntry
        /\ breaker.state = "OPEN" /\ breaker.steps = <<>>
        /\ now - breaker.closed_window_start >= FailureWindow
        /\ breaker.closed_elapsed >= FailureWindow

\* C38: a request the breaker reports as rejected did not have its handler
\* executed; a request whose handler ran is never reported as rejected, the
\* request that trips the breaker included.
RejectedRequestsNotHandled ==
    \A r \in Reqs :
        (\E i \in 1..Len(ctx[r].errors) : ctx[r].errors[i] = RejectedError)
            => obs[r].handler = 0

\* C38: the handler of a request returned its response, the breaker then
\* tripped and reported the request as rejected, and the client was
\* answered with an error.
HandledRequestReportedRejected ==
    \E r \in Reqs :
        /\ Ended(r) /\ obs[r].handler = 1 /\ obs[r].hout = "ok"
        /\ ctx[r].errors = <<RejectedError>>
        /\ obs[r].writes = 1 /\ obs[r].code = 500
        /\ breaker.state = "OPEN"

\* C37: processing a request does not change the response headers that are
\* registered for its route.
RegisteredHeadersUnchanged ==
    [][response_headers' = response_headers]_vars

\* C37: a request through the circuit breaker was handled and answered, and
\* the registered x-mercury-sync-overload header of its route, registered
\* as True, is False.
RegisteredHeadersOverwritten ==
    /\ RegisteredHeaders = "True"
    /\ response_headers = "False"
    /\ \E r \in Reqs :
           /\ Ended(r) /\ obs[r].handler = 1 /\ obs[r].hout = "ok"
           /\ obs[r].writes = 1 /\ ctx[r].overload = "False"

---------------------------------------------------------------------------
\* Properties of a shared middleware instance (specification WrapSpec).

\* C39: for every route it wraps, the circuit breaker calls its target with
\* the convention of that target: (context, response) when the target is
\* another wrapper, the fabricated arguments when it is the route handler.
TargetCalledWithItsConvention ==
    \A j \in 1..Len(middleware.calls) :
        middleware.calls[j].as_wrapper
            = middleware.wrappers[middleware.calls[j].wrapper]

\* C39: one instance wraps the handler of a service route and then a
\* wrapper on a group route; it calls the route handler of the first with
\* (context=..., response=...).
RouteHandlerCalledAsWrapper ==
    /\ middleware.wrappers = <<FALSE, TRUE>>
    /\ middleware.calls = <<[wrapper |-> 1, as_wrapper |-> TRUE]>>

---------------------------------------------------------------------------
\* Termination of a request pass (specification LiveSpec).

\* C40: every request pass terminates: whatever the stage results are, the
\* loop of _execute ends, provided the calls it awaits return.
EveryPassTerminates ==
    \A r \in Reqs : (status[r] # "IDLE") ~> Ended(r)

\* C40: a pass whose _complete_request returned the ERROR tuple has ended,
\* and so has a pass that was answered after the limiter and a middleware.
PassesEndedAfterComplete ==
    \E r, q \in Reqs :
        /\ Ended(r) /\ obs[r].lost /\ args[r].n = ErrorArity
        /\ Ended(q) /\ obs[q].writes = 1 /\ Last(obs[q].hist) = "COMPLETE"
        /\ Len(obs[q].hist) >= 3

====
